---------------------------- MODULE Spec2Model ----------------------------
(***************************************************************************)
(* RTO4LLM: the reversible text codec of src/src/reversible_text.py        *)
(* (classifier, frequency analyzer, three-tier token substitution, header  *)
(* framing, single-pass decoder) and its command line entry point.         *)
(*                                                                         *)
(* Texts are sequences of characters; a character is a string of length 1  *)
(* ("a", "~", "\n"), except the two opaque bytes NUL and BAD.  All model   *)
(* characters other than BAD are ASCII, so a text's UTF-8 length is its    *)
(* length.                                                                 *)
(***************************************************************************)
EXTENDS Integers, Sequences, FiniteSets, TLC

\* ------------------------------------------------------------------ bounds
MaxPieces == 3      \* pieces in one line of a plain input text
MaxBody == 2        \* pieces in the body of a hand-built document
MaxTail == 2        \* pieces after the text of a fuzzed input
MaxCount == 4       \* times a word is written in a text of the frequency analyzer
MaxIndex == 110     \* the largest dictionary index a token is made for
MaxCalls == 3       \* calls of compress and expand in one process
MaxOps == 3         \* SafeFileOps operations on one instance

\* ---------------------------------------------------------- characters
NL == "\n"
TILDE == "~"
QUOTE == "\""
BSLASH == "\\"
NUL == "NUL"        \* the byte 0x00
BAD == "xFF"        \* a byte that is not valid UTF-8

\* chars = string.digits + string.ascii_letters
chars ==
  << "0","1","2","3","4","5","6","7","8","9",
     "a","b","c","d","e","f","g","h","i","j","k","l","m",
     "n","o","p","q","r","s","t","u","v","w","x","y","z",
     "A","B","C","D","E","F","G","H","I","J","K","L","M",
     "N","O","P","Q","R","S","T","U","V","W","X","Y","Z" >>

DigitSeq == SubSeq(chars, 1, 10)
Digits == {chars[i] : i \in 1..10}
Alnum == {chars[i] : i \in 1..Len(chars)}         \* the class [0-9a-zA-Z]
Ident == (Alnum \ Digits) \cup {"_"}              \* the class [a-zA-Z_]
WordChars == Alnum \cup {"_"}                     \* \w on ASCII text
JsonWs == {" ", "\t", "\n", "\r"}
ReSpace == {" ", "\t", "\n", "\r", "\f"}          \* \s on ASCII text

\* ------------------------------------------------------ sequence helpers
Max(S) == CHOOSE x \in S : \A y \in S : y <= x

RECURSIVE Cat(_)
Cat(ss) == IF ss = <<>> THEN <<>> ELSE Head(ss) \o Cat(Tail(ss))

RECURSIVE Repeat(_, _, _)
\* n copies of s joined by sep
Repeat(s, sep, n) == IF n <= 1 THEN s ELSE s \o sep \o Repeat(s, sep, n - 1)

StartsWith(s, p) == Len(p) <= Len(s) /\ SubSeq(s, 1, Len(p)) = p

Drop(s, n) == SubSeq(s, n + 1, Len(s))

\* position (1-based) of the first x in s, 0 when absent
IndexOf(s, x) ==
  IF \E i \in 1..Len(s) : s[i] = x
  THEN CHOOSE i \in 1..Len(s) : s[i] = x /\ \A j \in 1..(i - 1) : s[j] # x
  ELSE 0

Contains(s, x) == \E i \in 1..Len(s) : s[i] = x

\* str.find: 0-based offset of the first occurrence of needle in hay, -1 if none
StrFind(hay, needle) ==
  LET hits == {i \in 1..(Len(hay) - Len(needle) + 1) :
                 SubSeq(hay, i, i + Len(needle) - 1) = needle}
  IN IF hits = {} THEN -1 ELSE (CHOOSE i \in hits : \A j \in hits : i <= j) - 1

\* str.isdigit on ASCII text
IsDigitStr(s) == Len(s) > 0 /\ \A i \in 1..Len(s) : s[i] \in Digits

RECURSIVE StrToInt(_)
\* int(s) for a string of decimal digits
StrToInt(s) ==
  IF s = <<>> THEN 0
  ELSE 10 * StrToInt(SubSeq(s, 1, Len(s) - 1)) + (IndexOf(DigitSeq, s[Len(s)]) - 1)

RECURSIVE IntToStr(_)
\* str(n) for n >= 0
IntToStr(n) ==
  IF n < 10 THEN <<DigitSeq[n + 1]>>
  ELSE IntToStr(n \div 10) \o <<DigitSeq[(n % 10) + 1]>>

\* -------------------------------------------------- regular expressions
\* \b at offset i: between s[i-1] and s[i] (1-based, i in 1..Len(s)+1)
BoundaryAt(s, i) ==
  (i > 1 /\ s[i - 1] \in WordChars) # (i <= Len(s) /\ s[i] \in WordChars)

RECURSIVE RunEnd(_, _, _)
\* greedy C+ : the offset after the longest run of characters of C from i
RunEnd(s, i, C) ==
  IF i <= Len(s) /\ s[i] \in C THEN RunEnd(s, i + 1, C) ELSE i

\* \b[a-zA-Z_]{min_len,}\b at offset i: the offset after the match, 0 if none
WordMatchEnd(s, i, min_len) ==
  LET g == RunEnd(s, i, Ident)
      ends == {e \in (i + min_len)..g : BoundaryAt(s, e)}
  IN IF BoundaryAt(s, i) /\ ends # {} THEN Max(ends) ELSE 0

RECURSIVE FindAllWords(_, _, _)
\* re.findall(r'\b[a-zA-Z_]{min_len,}\b', text)
FindAllWords(s, i, min_len) ==
  IF i > Len(s) THEN <<>>
  ELSE LET e == WordMatchEnd(s, i, min_len)
       IN IF e # 0 THEN <<SubSeq(s, i, e - 1)>> \o FindAllWords(s, e, min_len)
          ELSE FindAllWords(s, i + 1, min_len)

\* does \bword\b match at offset i
WholeWordAt(s, i, word) ==
  /\ i + Len(word) - 1 <= Len(s)
  /\ SubSeq(s, i, i + Len(word) - 1) = word
  /\ BoundaryAt(s, i)
  /\ BoundaryAt(s, i + Len(word))

RECURSIVE ReSubFrom(_, _, _, _)
ReSubFrom(s, i, word, token) ==
  IF i > Len(s) THEN <<>>
  ELSE IF WholeWordAt(s, i, word)
       THEN token \o ReSubFrom(s, i + Len(word), word, token)
       ELSE <<s[i]>> \o ReSubFrom(s, i + 1, word, token)

\* re.sub(r'\b' + re.escape(word) + r'\b', token, text)
ReSubWord(s, word, token) == ReSubFrom(s, 1, word, token)

\* token_pattern = ~~|~[\^\*]?[0-9a-zA-Z]+ at offset i: offset after the
\* match, 0 if none (first alternative first, the sigil optional and greedy)
TokenMatchEnd(s, i) ==
  IF s[i] # TILDE THEN 0
  ELSE IF i + 1 <= Len(s) /\ s[i + 1] = TILDE THEN i + 2
  ELSE LET sig == i + 1 <= Len(s) /\ s[i + 1] \in {"^", "*"}
           a1 == RunEnd(s, i + 2, Alnum)
           a0 == RunEnd(s, i + 1, Alnum)
       IN IF sig /\ a1 > i + 2 THEN a1
          ELSE IF a0 > i + 1 THEN a0
          ELSE 0


\* --------------------------------------------------------- dictionaries
\* learner.get_static_global(): an ordered, index-addressable word list.
\* Index 0 is a long word; index 10, the first index whose token suffix is a
\* letter (~^a), is a word that the py type dictionary holds as well; index
\* 11 (~^b) is a word much longer than its token.
GlobalDict ==
  << <<"p","r","i","v","a","t","e">>,
     <<"k","w","1">>, <<"k","w","2">>, <<"k","w","3">>,
     <<"k","w","4">>, <<"k","w","5">>, <<"k","w","6">>,
     <<"k","w","7">>, <<"k","w","8">>, <<"k","w","9">>,
     <<"f","r","o","m">>,
     <<"c","o","n","s","t","r","u","c","t","o","r">> >>

PyDict == << <<"s","e","l","f">>, <<"f","r","o","m">>,
            <<"d","e","f">>, <<"p","r","i","n","t">> >>

EXT_PY == <<"p","y">>
EXT_ZZ == <<"z","z">>       \* an extension without a type dictionary

get_static_global == GlobalDict

\* learner.get_type_specific(ext): the empty list for unknown extensions
get_type_specific(ext) == IF ext = EXT_PY THEN PyDict ELSE <<>>

\* ---------------------------------------------------- frequency analyzer
Count(ws, w) == Cardinality({i \in 1..Len(ws) : ws[i] = w})

RECURSIVE Uniq(_)
\* the keys of the counting dict, in insertion (first occurrence) order
Uniq(ws) ==
  IF ws = <<>> THEN <<>>
  ELSE LET r == Uniq(SubSeq(ws, 1, Len(ws) - 1))
           w == ws[Len(ws)]
       IN IF Contains(r, w) THEN r ELSE Append(r, w)

\* the counting dict left in insertion order
SortDesc_none(ps) == ps

RECURSIVE SortDesc(_)
\* sorted(pairs, key = first component, reverse = True): stable
SortDesc(ps) ==
  IF ps = <<>> THEN <<>>
  ELSE LET m == Max({ps[i][1] : i \in 1..Len(ps)})
           k == CHOOSE i \in 1..Len(ps) :
                  ps[i][1] = m /\ \A j \in 1..(i - 1) : ps[j][1] # m
       IN <<ps[k]>> \o SortDesc(SubSeq(ps, 1, k - 1) \o SubSeq(ps, k + 1, Len(ps)))

Take(s, n) == SubSeq(s, 1, IF n < Len(s) THEN n ELSE Len(s))

get_frequent_phrases(text, min_len, top_n) ==
  LET words == FindAllWords(text, 1, min_len)
      keys == Uniq(words)
      counts == SelectSeq([i \in 1..Len(keys) |-> <<Count(words, keys[i]), keys[i]>>],
                          LAMBDA p : p[1] > 2)
      sorted_words == SortDesc(counts)
      top == Take(sorted_words, top_n)
  IN [i \in 1..Len(top) |-> top[i][2]]

\* the sort left out: the words stay in frequency order
SortByLenDesc_none(ws) == ws

\* words.sort(key=len, reverse=True)
SortByLenDesc(ws) ==
  LET s == SortDesc([i \in 1..Len(ws) |-> <<Len(ws[i]), ws[i]>>])
  IN [i \in 1..Len(s) |-> s[i][2]]

\* --------------------------------------------------------------- tokens
\* the alphabet read one place too far
get_token_off(idx, prefix) ==
  IF idx + 1 < Len(chars) THEN prefix \o <<chars[idx + 2]>>
  ELSE prefix \o IntToStr(idx)

get_token(idx, prefix) ==
  IF idx < Len(chars) THEN prefix \o <<chars[idx + 1]>>
  ELSE prefix \o IntToStr(idx)

P_LOCAL == <<"~">>
P_GLOBAL == <<"~", "^">>
P_TYPE == <<"~", "*">>

\* the escaping left out
EscapeTildes_none(s) == s

RECURSIVE EscapeTildes(_)
\* text.replace('~', '~~')
EscapeTildes(s) ==
  IF s = <<>> THEN <<>>
  ELSE (IF Head(s) = TILDE THEN <<TILDE, TILDE>> ELSE <<Head(s)>>)
       \o EscapeTildes(Tail(s))

\* ---------------------------------------------------- compress, the loop
\* the locals of one compress call before the first word is processed
CompressStart(text, min_len, top_n) ==
  [ words |-> SortByLenDesc(get_frequent_phrases(text, min_len, top_n)),
    i |-> 1,
    compressed_text |-> EscapeTildes(text),
    mapping |-> <<>>,            \* word -> token, insertion order
    reverse_mapping |-> <<>>,    \* token -> word, insertion order
    used_global |-> <<>>,
    used_type |-> <<>>,
    tokens |-> <<>> ]            \* the token of each word processed so far

\* the type dictionary consulted before the global one
TierOf_typeFirst(word, global_dict, type_dict) ==
  IF Contains(type_dict, word) THEN "type"
  ELSE IF Contains(global_dict, word) THEN "global"
  ELSE "local"

\* the tier of a word: global, else type, else local
TierOf(word, global_dict, type_dict) ==
  IF Contains(global_dict, word) THEN "global"
  ELSE IF Contains(type_dict, word) THEN "type"
  ELSE "local"

\* one iteration of `for word in words`
LoopStep(cs, file_ext) ==
  LET word == cs.words[cs.i]
      global_dict == get_static_global
      type_dict == IF file_ext # <<>> THEN get_type_specific(file_ext) ELSE <<>>
      tier == TierOf(word, global_dict, type_dict)
      idx == IF tier = "global" THEN IndexOf(global_dict, word) - 1
             ELSE IF tier = "type" THEN IndexOf(type_dict, word) - 1
             ELSE Len(cs.mapping)
      token == get_token(idx, IF tier = "global" THEN P_GLOBAL
                              ELSE IF tier = "type" THEN P_TYPE ELSE P_LOCAL)
  IN [ cs EXCEPT
         !.i = @ + 1,
         !.compressed_text = ReSubWord(@, word, token),
         !.mapping = IF tier = "local" THEN Append(@, <<word, token>>) ELSE @,
         !.reverse_mapping = IF tier = "local" THEN Append(@, <<token, word>>) ELSE @,
         !.used_global = IF tier = "global" THEN Append(@, idx) ELSE @,
         !.used_type = IF tier = "type" THEN Append(@, idx) ELSE @,
         !.tokens = Append(@, token) ]

RECURSIVE LoopAll(_, _)
LoopAll(cs, file_ext) ==
  IF cs.i > Len(cs.words) THEN cs ELSE LoopAll(LoopStep(cs, file_ext), file_ext)

\* ------------------------------------------------------------------ JSON
\* A JSON value: t is its type; s the characters of a string; n the value of
\* a number; kv the members of an object (<<key, value>> pairs, in order) or
\* the items of an array (<<<<>>, value>> pairs).
JV(t, s, n, kv) == [t |-> t, s |-> s, n |-> n, kv |-> kv]
JStr(s) == JV("str", s, 0, <<>>)
JNum(n) == JV("num", <<>>, n, <<>>)
JObj(kv) == JV("obj", <<>>, 0, kv)
JArr(kv) == JV("arr", <<>>, 0, kv)
JNull == JV("null", <<>>, 0, <<>>)
JTrue == JV("true", <<>>, 0, <<>>)
JFalse == JV("false", <<>>, 0, <<>>)

L_NULL == <<"n","u","l","l">>
L_TRUE == <<"t","r","u","e">>
L_FALSE == <<"f","a","l","s","e">>

\* a string literal written without escaping
EscapeJson_raw(s) == s

RECURSIVE EscapeJson(_)
\* the body of a JSON string literal as json.dumps writes it
EscapeJson(s) ==
  IF s = <<>> THEN <<>>
  ELSE LET c == Head(s)
       IN (IF c = QUOTE THEN <<BSLASH, QUOTE>>
           ELSE IF c = BSLASH THEN <<BSLASH, BSLASH>>
           ELSE IF c = NL THEN <<BSLASH, "n">>
           ELSE <<c>>) \o EscapeJson(Tail(s))

RECURSIVE json_dumps(_)
RECURSIVE DumpMembers(_, _)
\* json.dumps(v, separators=(',', ':'))
json_dumps(v) ==
  IF v.t = "str" THEN <<QUOTE>> \o EscapeJson(v.s) \o <<QUOTE>>
  ELSE IF v.t = "num" THEN (IF v.n < 0 THEN <<"-">> \o IntToStr(-v.n) ELSE IntToStr(v.n))
  ELSE IF v.t = "obj" THEN <<"{">> \o DumpMembers(v.kv, TRUE) \o <<"}">>
  ELSE IF v.t = "arr" THEN <<"[">> \o DumpMembers(v.kv, FALSE) \o <<"]">>
  ELSE IF v.t = "true" THEN L_TRUE
  ELSE IF v.t = "false" THEN L_FALSE
  ELSE L_NULL

DumpMembers(kv, keyed) ==
  IF kv = <<>> THEN <<>>
  ELSE (IF keyed THEN json_dumps(JStr(kv[1][1])) \o <<":">> ELSE <<>>)
       \o json_dumps(kv[1][2])
       \o (IF Len(kv) > 1 THEN <<",">> ELSE <<>>)
       \o DumpMembers(Tail(kv), keyed)

\* A parse result: ok, the value and the offset after it.
PFail == [ok |-> FALSE, v |-> JNull, next |-> 0]
POk(v, next) == [ok |-> TRUE, v |-> v, next |-> next]

SkipWs(s, i) == RunEnd(s, i, JsonWs)

RECURSIVE ParseString(_, _, _)
\* the characters of a string literal whose opening quote precedes offset i
ParseString(s, i, acc) ==
  IF i > Len(s) THEN PFail
  ELSE IF s[i] = QUOTE THEN POk(JStr(acc), i + 1)
  ELSE IF s[i] = BSLASH
       THEN IF i + 1 > Len(s) THEN PFail
            ELSE IF s[i + 1] \in {QUOTE, BSLASH, "/"}
                 THEN ParseString(s, i + 2, Append(acc, s[i + 1]))
            ELSE IF s[i + 1] = "n" THEN ParseString(s, i + 2, Append(acc, NL))
            ELSE IF s[i + 1] = "t" THEN ParseString(s, i + 2, Append(acc, "\t"))
            ELSE IF s[i + 1] = "r" THEN ParseString(s, i + 2, Append(acc, "\r"))
            ELSE PFail
  ELSE IF s[i] \in {NL, "\t", "\r", "\f", NUL} THEN PFail   \* control character
  ELSE ParseString(s, i + 1, Append(acc, s[i]))

\* -?(0|[1-9][0-9]*) at offset i (fractions and exponents are not modelled)
NumEnd(s, d) == IF d <= Len(s) /\ s[d] = "0" THEN d + 1 ELSE RunEnd(s, d, Digits)

NumOf(s, d, e, neg) ==
  IF e = d THEN PFail
  ELSE POk(JNum(IF neg THEN -StrToInt(SubSeq(s, d, e - 1))
                ELSE StrToInt(SubSeq(s, d, e - 1))), e)

ParseNumber(s, i) ==
  IF s[i] = "-" THEN NumOf(s, i + 1, NumEnd(s, i + 1), TRUE)
  ELSE NumOf(s, i, NumEnd(s, i), FALSE)

RECURSIVE ParseValue(_, _)
RECURSIVE ParseMembers(_, _, _, _)

\* after a member's value and the whitespace behind it: "," or the closing bracket
AfterValueWs(s, keyed, acc, e) ==
  IF e > Len(s) THEN PFail
  ELSE IF s[e] = "," THEN ParseMembers(s, SkipWs(s, e + 1), keyed, acc)
  ELSE IF s[e] = (IF keyed THEN "}" ELSE "]")
       THEN POk(IF keyed THEN JObj(acc) ELSE JArr(acc), e + 1)
  ELSE PFail

AfterValue(s, keyed, acc, key, v) ==
  IF ~v.ok THEN PFail
  ELSE AfterValueWs(s, keyed, Append(acc, <<key, v.v>>), SkipWs(s, v.next))

AfterKeyWs(s, acc, key, c) ==
  IF c <= Len(s) /\ s[c] = ":"
  THEN AfterValue(s, TRUE, acc, key, ParseValue(s, SkipWs(s, c + 1)))
  ELSE PFail

AfterKey(s, acc, k) ==
  IF ~k.ok THEN PFail ELSE AfterKeyWs(s, acc, k.v.s, SkipWs(s, k.next))

\* the members of an object (keyed) or the items of an array from offset i,
\* up to and including the closing bracket
ParseMembers(s, i, keyed, acc) ==
  IF ~keyed THEN AfterValue(s, FALSE, acc, <<>>, ParseValue(s, i))
  ELSE IF i <= Len(s) /\ s[i] = QUOTE THEN AfterKey(s, acc, ParseString(s, i + 1, <<>>))
  ELSE PFail

\* after an opening bracket and the whitespace behind it
ParseBracket(s, j, keyed) ==
  IF j <= Len(s) /\ s[j] = (IF keyed THEN "}" ELSE "]")
  THEN POk(IF keyed THEN JObj(<<>>) ELSE JArr(<<>>), j + 1)
  ELSE ParseMembers(s, j, keyed, <<>>)

\* a JSON value at offset i (leading whitespace already skipped)
ParseValue(s, i) ==
  IF i > Len(s) THEN PFail
  ELSE IF s[i] = "{" THEN ParseBracket(s, SkipWs(s, i + 1), TRUE)
  ELSE IF s[i] = "[" THEN ParseBracket(s, SkipWs(s, i + 1), FALSE)
  ELSE IF s[i] = QUOTE THEN ParseString(s, i + 1, <<>>)
  ELSE IF s[i] = "-" \/ s[i] \in Digits THEN ParseNumber(s, i)
  ELSE IF StartsWith(Drop(s, i - 1), L_NULL) THEN POk(JNull, i + 4)
  ELSE IF StartsWith(Drop(s, i - 1), L_TRUE) THEN POk(JTrue, i + 4)
  ELSE IF StartsWith(Drop(s, i - 1), L_FALSE) THEN POk(JFalse, i + 5)
  ELSE PFail

LoadsEnd(s, r) == IF r.ok /\ SkipWs(s, r.next) > Len(s) THEN r ELSE PFail

\* json.loads(line): ok is FALSE where it raises ValueError
json_loads(s) == LoadsEnd(s, ParseValue(s, SkipWs(s, 1)))

HasKey(obj, key) == \E i \in 1..Len(obj.kv) : obj.kv[i][1] = key

\* dict.get(key, default) on a parsed object: a repeated key keeps its last value
ObjGet(obj, key, default) ==
  IF HasKey(obj, key)
  THEN obj.kv[Max({i \in 1..Len(obj.kv) : obj.kv[i][1] = key})][2]
  ELSE default

\* Python's truth value of a parsed JSON value
Truthy(v) ==
  IF v.t = "num" THEN v.n # 0
  ELSE IF v.t = "str" THEN v.s # <<>>
  ELSE IF v.t \in {"obj", "arr"} THEN v.kv # <<>>
  ELSE v.t = "true"

\* ------------------------------------------------------ compress, the end
ascii_letters == SubSeq(chars, 11, 62)
FuzzLen == 20

\* The process-wide generator of the random module, as a small deterministic
\* generator: a state, a step per number drawn, and what is read off a state.
RngStep(s) == (s + 7) % Len(ascii_letters)

\* random.random() < 0.1, for the number drawn in state s
RandomLow(s) == s % 2 = 0

\* the call random.seed(seed) left out
RngSeed_unseeded(s, seed) == s

\* the state after random.seed(seed): it depends on the seed alone
RngSeed(s, seed) == seed % Len(ascii_letters)

\* ''.join(random.choices(string.ascii_letters, k=20)) drawn from state seed
FuzzBlock(seed) == [k \in 1..FuzzLen |-> ascii_letters[((seed + 7 * k) % 52) + 1]]

FUZZ_OPEN == <<NL, NL, "[", "F", "U", "Z", "Z", ":">>

K_V == <<"v">>
K_M == <<"m">>
K_MAP == <<"m","a","p">>
K_F == <<"f">>
K_FUZZED == <<"f","u","z","z","e","d">>
K_S == <<"s">>
K_META == <<"m","e","t","a">>
K_EXT == <<"e","x","t">>
K_NAME == <<"n","a","m","e">>
VERSION_1_2 == <<"1",".","2">>

\* header = {"v": "1.2", "m": reverse_mapping, ["f": 1, "s": seed,]
\*           ["meta": metadata,] ["ext": file_ext]}
BuildHeader(reverse_mapping, is_fuzzed, seed, metadata, file_ext) ==
  JObj( << <<K_V, JStr(VERSION_1_2)>>,
           <<K_M, JObj([i \in 1..Len(reverse_mapping) |->
                          <<reverse_mapping[i][1], JStr(reverse_mapping[i][2])>>])>> >>
        \o (IF is_fuzzed THEN << <<K_F, JNum(1)>>, <<K_S, JNum(seed)>> >> ELSE <<>>)
        \o (IF metadata # <<>> THEN << <<K_META, JObj(metadata)>> >> ELSE <<>>)
        \o (IF file_ext # <<>> THEN << <<K_EXT, JStr(file_ext)>> >> ELSE <<>>) )

\* the statements of compress after the loop: fuzz block, header, framing
\* s is the generator's state after the draw that decided is_fuzzed
CompressFinish(cs, is_fuzzed, s, seed, metadata, file_ext) ==
  LET body == cs.compressed_text
              \o (IF is_fuzzed THEN FUZZ_OPEN \o FuzzBlock(RngSeed(s, seed)) \o <<"]">>
                  ELSE <<>>)
      header_str == json_dumps(BuildHeader(cs.reverse_mapping, is_fuzzed, seed,
                                           metadata, file_ext))
  IN header_str \o <<NL>> \o body

\* compress(text, metadata=, file_ext=, min_len=, top_n=) with the fuzz branch
\* not taken
compress(text, metadata, file_ext, min_len, top_n) ==
  CompressFinish(LoopAll(CompressStart(text, min_len, top_n), file_ext),
                 FALSE, 0, 0, metadata, file_ext)

\* compress(text, fuzz=True, seed=, ...) called with the generator in state s
compress_fuzz(text, s, seed, metadata, file_ext, min_len, top_n) ==
  CompressFinish(LoopAll(CompressStart(text, min_len, top_n), file_ext),
                 RandomLow(s), RngStep(s), seed, metadata, file_ext)

\* the generator's state after that call: one number drawn, and, in the fuzz
\* branch, the seeding and FuzzLen more
RngAfterFuzz(s, seed) ==
  IF RandomLow(s) THEN (RngSeed(RngStep(s), seed) + 7 * FuzzLen) % Len(ascii_letters)
  ELSE RngStep(s)

\* ------------------------------------------------------ module tracker
\* A ModuleTracker: `enabled` (DEV_MODE, for the instance reversible_text
\* makes), `modules` (name -> ModuleStats, in insertion order; stats is FALSE
\* for a value that is no ModuleStats instance), and the two orders.
ModuleStats(name) == [name |-> name, stats |-> TRUE, calls |-> 0]

HasModule(t, name) == \E i \in 1..Len(t.modules) : t.modules[i].name = name

ModuleOf(t, name) == t.modules[CHOOSE i \in 1..Len(t.modules) : t.modules[i].name = name]

\* list.insert(i, x) for 0 <= i
InsertAt(s, i, x) ==
  IF i >= Len(s) THEN Append(s, x)
  ELSE SubSeq(s, 1, i) \o <<x>> \o SubSeq(s, i + 1, Len(s))

\* self.modules[name] = ModuleStats(name=name), if name is no key yet
AddIfAbsent(t, name) ==
  IF HasModule(t, name) THEN t
  ELSE [t EXCEPT !.modules = Append(@, ModuleStats(name))]

\* order_index: None, or <<i>> for the index i
NoIndex == <<>>

\* the order part of register_module
RegisterOrder(t, name, order_index) ==
  IF Contains(t.default_order, name) THEN t
  ELSE [t EXCEPT !.default_order = IF order_index = NoIndex THEN Append(@, name)
                                    ELSE InsertAt(@, order_index[1], name),
                 !.current_order = IF order_index = NoIndex THEN Append(t.default_order, name)
                                    ELSE InsertAt(t.default_order, order_index[1], name)]

register_module(t, name, order_index) ==
  RegisterOrder(AddIfAbsent(t, name), name, order_index)

\* start_module: registers the module (the timing is left out)
start_module(t, name) == IF ~t.enabled THEN t ELSE register_module(t, name, NoIndex)

\* a tracker call returns, or raises AttributeError with t as it then is
TrOk(t) == [ok |-> TRUE, t |-> t]
TrRaise(t) == [ok |-> FALSE, t |-> t]

\* self.modules[name].record(...): calls += 1
Recorded(t, name) ==
  [t EXCEPT !.modules = [i \in 1..Len(@) |->
      IF @[i].name = name THEN [@[i] EXCEPT !.calls = @ + 1] ELSE @[i]]]

\* total_calls = sum(m.calls for m in self.modules.values()), then the
\* periodic _save_state, which changes nothing in the tracker
EndSum(t) ==
  IF \E i \in 1..Len(t.modules) : ~t.modules[i].stats THEN TrRaise(t) ELSE TrOk(t)

EndRecord(t, name) ==
  IF ~ModuleOf(t, name).stats THEN TrRaise(t) ELSE EndSum(Recorded(t, name))

end_module(t, name) ==
  IF ~t.enabled THEN TrOk(t) ELSE EndRecord(AddIfAbsent(t, name), name)

\* list.remove(x): the first x taken out
RemoveFirst(s, x) ==
  SubSeq(s, 1, IndexOf(s, x) - 1) \o SubSeq(s, IndexOf(s, x) + 1, Len(s))

disable_module(t, name) ==
  IF Contains(t.current_order, name)
  THEN [t EXCEPT !.current_order = RemoveFirst(@, name)]
  ELSE t

\* idx = default_order.index(name); current_order.insert(min(idx, len), name)
enable_module(t, name) ==
  IF ~Contains(t.current_order, name) /\ Contains(t.default_order, name)
  THEN [t EXCEPT !.current_order = InsertAt(@, IndexOf(t.default_order, name) - 1, name)]
  ELSE t

\* ------------------------------------------- compress, with the tracker
\* start_module(name) and end_module(name, ...) of one stage, unless an
\* earlier stage raised
Track(r, name) == IF ~r.ok THEN r ELSE end_module(start_module(r.t, name), name)

\* _tracker.modules.setdefault('global_dict', type(...object())): a new key
\* gets the class `object`, no ModuleStats
SetDefaultClass(t, name) ==
  IF HasModule(t, name) THEN t
  ELSE [t EXCEPT !.modules = Append(@, [name |-> name, stats |-> FALSE, calls |-> 0])]

RegisterIf(t, used, name) == IF used THEN register_module(t, name, NoIndex) ELSE t

\* compress, lines 208-218: the per-tier registrations after the loop
RegisterTiers(r, cs) ==
  IF ~r.ok \/ ~r.t.enabled THEN r
  ELSE TrOk(RegisterIf(
              RegisterIf(
                RegisterIf(IF cs.used_global # <<>>
                           THEN SetDefaultClass(r.t, "global_dict") ELSE r.t,
                           cs.used_global # <<>>, "global_dict"),
                cs.used_type # <<>>, "type_dict"),
              cs.mapping # <<>>, "local_dict"))

\* compress, lines 206-218 and 250-254: the tracker calls after the loop
TrackAfterLoop(r, cs) ==
  Track(RegisterTiers(Track(r, "dict_compress"), cs), "header_overhead")

\* random.shuffle(stages): three numbers drawn for the four stages
RngShuffle(s) == RngStep(RngStep(RngStep(s)))

\* the generator after lines 129-132, as the fuzz test finds it
RngAtFuzz(t, s, shuffle_stages) == IF shuffle_stages /\ t.enabled THEN RngShuffle(s) ELSE s

\* ---------------------------------------------------------------- expand
\* What a call returns: its text, or the exception it raises.
ExOk(t) == [ok |-> TRUE, text |-> t, exc |-> "none"]
ExRaise(e) == [ok |-> FALSE, text |-> <<>>, exc |-> e]

\* the pattern with a dot that matches newlines as well
DefuzzAt_dotall(s, i) ==
  /\ i + Len(FUZZ_OPEN) - 1 <= Len(s)
  /\ SubSeq(s, i, i + Len(FUZZ_OPEN) - 1) = FUZZ_OPEN
  /\ \E k \in (i + Len(FUZZ_OPEN))..Len(s) :
       /\ s[k] = "]"
       /\ \A j \in (k + 1)..Len(s) : s[j] \in ReSpace

\* re.sub(r'\n\n\[FUZZ:.*?\]\s*$', '', body)
DefuzzAt(s, i) ==
  /\ i + Len(FUZZ_OPEN) - 1 <= Len(s)
  /\ SubSeq(s, i, i + Len(FUZZ_OPEN) - 1) = FUZZ_OPEN
  /\ \E k \in (i + Len(FUZZ_OPEN))..Len(s) :
       /\ s[k] = "]"
       /\ \A j \in (i + Len(FUZZ_OPEN))..(k - 1) : s[j] # NL
       /\ \A j \in (k + 1)..Len(s) : s[j] \in ReSpace

Defuzz(s) ==
  LET hits == {i \in 1..Len(s) : DefuzzAt(s, i)}
  IN IF hits = {} THEN s
     ELSE SubSeq(s, 1, (CHOOSE i \in hits : \A j \in hits : i <= j) - 1)

\* the decimal branch left out: every suffix is looked up in chars
DecodeIndex_find(idx_str) == StrFind(chars, idx_str)

\* the index a sigil token's suffix denotes, -1 where the lookup raises
\* ValueError (chars.index is str.index: a substring search)
DecodeIndex(idx_str) ==
  IF IsDigitStr(idx_str) /\ StrToInt(idx_str) >= Len(chars)
  THEN StrToInt(idx_str)
  ELSE StrFind(chars, idx_str)

\* `token in reverse_mapping` for whatever the header's "m" parsed to
InMapping(rm, token) ==
  IF rm.t = "obj" THEN (IF HasKey(rm, token) THEN "yes" ELSE "no")
  ELSE IF rm.t = "str" THEN (IF StrFind(rm.s, token) >= 0 THEN "yes" ELSE "no")
  ELSE IF rm.t = "arr"
       THEN (IF \E i \in 1..Len(rm.kv) : rm.kv[i][2] = JStr(token) THEN "yes" ELSE "no")
  ELSE "TypeError"

\* `return reverse_mapping[token]` as re.sub uses it: a string, the empty
\* string for None, TypeError for anything else
MappingItem(rm, token) ==
  IF rm.t # "obj" THEN ExRaise("TypeError")
  ELSE LET v == ObjGet(rm, token, JNull)
       IN IF v.t = "str" THEN ExOk(v.s)
          ELSE IF v.t = "null" THEN ExOk(<<>>)
          ELSE ExRaise("TypeError")

\* the sigil branches of replace_func: `0 <= idx < len(dict)` after decoding
SigilHit(token, dict) ==
  LET idx == DecodeIndex(Drop(token, 2)) IN 0 <= idx /\ idx < Len(dict)

SigilWord(token, dict) == dict[DecodeIndex(Drop(token, 2)) + 1]

\* an unresolved token dropped instead of returned
ReplaceLookup_drop(token, in, reverse_mapping, global_dict, type_dict) ==
  IF in = "TypeError" THEN ExRaise("TypeError")
  ELSE IF in = "yes" THEN MappingItem(reverse_mapping, token)
  ELSE IF StartsWith(token, P_GLOBAL) /\ SigilHit(token, global_dict)
       THEN ExOk(SigilWord(token, global_dict))
  ELSE IF StartsWith(token, P_TYPE) /\ SigilHit(token, type_dict)
       THEN ExOk(SigilWord(token, type_dict))
  ELSE ExOk(<<>>)

\* replace_func after the escaped pair: local mapping, global, type, verbatim
ReplaceLookup(token, in, reverse_mapping, global_dict, type_dict) ==
  IF in = "TypeError" THEN ExRaise("TypeError")
  ELSE IF in = "yes" THEN MappingItem(reverse_mapping, token)
  ELSE IF StartsWith(token, P_GLOBAL) /\ SigilHit(token, global_dict)
       THEN ExOk(SigilWord(token, global_dict))
  ELSE IF StartsWith(token, P_TYPE) /\ SigilHit(token, type_dict)
       THEN ExOk(SigilWord(token, type_dict))
  ELSE ExOk(token)

replace_func(token, reverse_mapping, global_dict, type_dict) ==
  IF token = <<TILDE, TILDE>> THEN ExOk(<<TILDE>>)
  ELSE ReplaceLookup(token, InMapping(reverse_mapping, token),
                     reverse_mapping, global_dict, type_dict)

\* t, then what the rest of the scan gave
Prepend(t, rest) == IF rest.ok THEN ExOk(t \o rest.text) ELSE rest

RECURSIVE SubTokens(_, _, _, _, _)

SubJoin(r, s, e, rm, gd, td) ==
  IF ~r.ok THEN r ELSE Prepend(r.text, SubTokens(s, e, rm, gd, td))

\* at offset i, where the token pattern matches up to e (0: no match)
SubAt(s, i, e, rm, gd, td) ==
  IF e = 0 THEN Prepend(<<s[i]>>, SubTokens(s, i + 1, rm, gd, td))
  ELSE SubJoin(replace_func(SubSeq(s, i, e - 1), rm, gd, td), s, e, rm, gd, td)

\* token_pattern.sub(replace_func, body) from offset i
SubTokens(s, i, rm, gd, td) ==
  IF i > Len(s) THEN ExOk(<<>>) ELSE SubAt(s, i, TokenMatchEnd(s, i), rm, gd, td)

\* get_type_specific(header.get("ext")) when the value is truthy
HeaderTypeDict(file_ext) ==
  IF Truthy(file_ext) /\ file_ext.t = "str" THEN get_type_specific(file_ext.s) ELSE <<>>

\* expand, lines 267-354: the header is a parsed object
ExpandHeader(header, body) ==
  SubTokens(IF Truthy(ObjGet(header, K_F, JNull)) \/ Truthy(ObjGet(header, K_FUZZED, JNull))
            THEN Defuzz(body) ELSE body,
            1,
            ObjGet(header, K_M, ObjGet(header, K_MAP, JObj(<<>>))),
            get_static_global,
            HeaderTypeDict(ObjGet(header, K_EXT, JNull)))

ExpandParsed(text, parsed, body) ==
  IF ~parsed.ok THEN ExOk(text)                        \* json.loads: ValueError
  ELSE IF parsed.v.t # "obj" THEN ExRaise("AttributeError")   \* header.get
  ELSE ExpandHeader(parsed.v, body)

ExpandSplit(text, nl) ==
  IF nl = 0 THEN ExOk(text)                            \* split: ValueError
  ELSE ExpandParsed(text, json_loads(SubSeq(text, 1, nl - 1)), Drop(text, nl))

expand(text) == ExpandSplit(text, IndexOf(text, NL))

\* ------------------------------------------------------------ classifier
NullWindow == 1024      \* data[:1024]
SampleSize == 4096      \* data[:4096]

RECURSIVE Log2Ceil(_)
Log2Ceil(n) == IF n <= 1 THEN 0 ELSE 1 + Log2Ceil((n + 1) \div 2)

RECURSIVE Log2Floor(_)
Log2Floor(n) == IF n <= 1 THEN 0 ELSE 1 + Log2Floor(n \div 2)

\* collections.Counter(data)
Counter(data) ==
  [v \in {data[i] : i \in 1..Len(data)} |->
     Cardinality({i \in 1..Len(data) : data[i] = v})]

RECURSIVE Pow2(_)
Pow2(j) == IF j = 0 THEN 1 ELSE 2 * Pow2(j - 1)

RECURSIVE SumCLogC(_, _, _)
\* the sum over the byte values of count * floor(log2(count)): the bytes
\* whose value occurs 2^j times or more, counted for j, j+1, ...
SumCLogC(data, counts, j) ==
  IF Pow2(j) > Len(data) THEN 0
  ELSE Cardinality({i \in 1..Len(data) : counts[data[i]] >= Pow2(j)})
         + SumCLogC(data, counts, j + 1)

\* calculate_entropy(data) times len(data).  The entropy is
\* log2(n) - (1/n) * sum(count * log2(count)); the model computes it with
\* whole logarithms, which is the entropy itself when n and every count are
\* powers of two and an upper estimate of it otherwise.
calculate_entropy(data) ==
  IF Len(data) = 0 THEN 0
  ELSE CHOOSE e \in { Len(d) * Log2Ceil(Len(d)) - SumCLogC(d, c, 1) :
                       <<d, c>> \in {<<data, Counter(data)>>} } : TRUE

Analysis(type, action) == [type |-> type, action |-> action]

\* the whitespace test made before the entropy test
Decide_wsFirst(entropy, whitespace_count, n) ==
  IF 100 * whitespace_count < 5 * n /\ entropy > 6 * n
  THEN Analysis("binary_likely", "pass")
  ELSE IF 2 * entropy > 15 * n THEN Analysis("high_entropy", "pass")
  ELSE Analysis("text", "compress")

\* the decision logic of analyze_content on the sample's measures; entropy
\* is n times the entropy, so "> 7.5" reads 2 * entropy > 15 * n
Decide(entropy, whitespace_count, n) ==
  IF 2 * entropy > 15 * n THEN Analysis("high_entropy", "pass")
  ELSE IF 100 * whitespace_count < 5 * n /\ entropy > 6 * n
       THEN Analysis("binary_likely", "pass")
  ELSE Analysis("text", "compress")

Whitespace == {" ", "\t", "\n", "\r"}

\* the entropy and whitespace measures of the sample, and the decision
Measure(sample) ==
  Decide(calculate_entropy(sample),
         Cardinality({i \in 1..Len(sample) : sample[i] \in Whitespace}),
         Len(sample))

AnalyzeSample(sample) == CHOOSE a \in {Measure(s) : s \in {sample}} : TRUE

\* the NUL byte check left out
analyze_content_noNul(data) ==
  IF Len(data) = 0 THEN Analysis("empty", "pass")
  ELSE AnalyzeSample(Take(data, SampleSize))

\* the test for the empty input left out
analyze_content_noEmpty(data) ==
  IF Contains(Take(data, NullWindow), NUL) THEN Analysis("binary", "pass")
  ELSE AnalyzeSample(Take(data, SampleSize))

analyze_content(data) ==
  IF Len(data) = 0 THEN Analysis("empty", "pass")
  ELSE IF Contains(Take(data, NullWindow), NUL) THEN Analysis("binary", "pass")
  ELSE AnalyzeSample(Take(data, SampleSize))

\* ------------------------------------------------------- the command line
\* bytes.decode('utf-8') succeeds
ValidUtf8(bytes) == ~Contains(bytes, BAD)

\* args.filename.rsplit('.', 1)[1], or no extension
LastDot(name) == Max({0} \cup {i \in 1..Len(name) : name[i] = "."})
FileExt(name) == IF LastDot(name) = 0 THEN <<>> ELSE Drop(name, LastDot(name))

\* meta = {'name': args.filename} when a file name is given
FileMeta(name) == IF name # <<>> THEN << <<K_NAME, JStr(name)>> >> ELSE <<>>

\* lines 661-665: the compressed document only if it is smaller
SizePolicy(input_bytes, input_text, result) ==
  IF Len(result) >= Len(input_bytes) THEN input_text ELSE result

\* what `--compress` writes to stdout for stdin = input_bytes
CliCompress(input_bytes, analysis, args) ==
  IF input_bytes = <<>> THEN <<>>                          \* sys.exit(0)
  ELSE IF analysis.action = "pass" THEN input_bytes
  ELSE IF ~ValidUtf8(input_bytes) THEN input_bytes
  ELSE SizePolicy(input_bytes, input_bytes,
                  compress(input_bytes, FileMeta(args.filename), FileExt(args.filename),
                           args.min_len, args.top_n))

\* `--expand` without the except clause around the decoding
CliExpand_strict(input_bytes) ==
  IF input_bytes = <<>> THEN ExOk(<<>>)
  ELSE IF ~ValidUtf8(input_bytes) THEN ExRaise("UnicodeDecodeError")
  ELSE expand(input_bytes)

\* what `--expand` does for stdin = input_bytes: the text it writes to stdout,
\* or the exception it dies of with nothing written
CliExpand(input_bytes) ==
  IF input_bytes = <<>> THEN ExOk(<<>>)                    \* sys.exit(0)
  ELSE IF ~ValidUtf8(input_bytes) THEN ExOk(input_bytes)
  ELSE expand(input_bytes)

\* ------------------------------------------------------------ the inputs
SeqsUpTo(S, n) == UNION {[1..k -> S] : k \in 0..n}

W_A == <<"a">>                       \* a one-letter word, in no dictionary
W_DATA == <<"d","a","t","a">>        \* a word in no dictionary
W_SELF == <<"s","e","l","f">>        \* a word of the py type dictionary only
W_FROM == <<"f","r","o","m">>        \* a word of both dictionaries

\* what a line of a plain text is made of
Pieces == {W_A, W_DATA, W_SELF, W_FROM, <<TILDE>>, <<" ">>, <<"^">>, <<"0">>}

DefaultMinLen == 4
DefaultTopN == 200

Params(min_len, top_n, file_ext, metadata) ==
  [min_len |-> min_len, top_n |-> top_n, file_ext |-> file_ext, metadata |-> metadata]

DefaultParams == Params(DefaultMinLen, DefaultTopN, <<>>, <<>>)

META_F == << <<K_NAME, JStr(<<"f",".","p","y">>)>> >>

\* the parameter combinations a compress call is made with
ParamSets ==
  { DefaultParams,
    Params(DefaultMinLen, DefaultTopN, EXT_PY, META_F),
    Params(1, DefaultTopN, <<>>, <<>>),
    Params(1, DefaultTopN, EXT_PY, <<>>),
    Params(DefaultMinLen, 1, EXT_PY, <<>>),
    Params(DefaultMinLen, 0, EXT_ZZ, <<>>) }

\* the two lines of a small py file, as one piece
HELLO_PY ==
  <<"d","e","f"," ","h","e","l","l","o","(",")",":",NL,
    " "," "," "," ","p","r","i","n","t","(",QUOTE,"H","e","l","l","o"," ",
    "W","o","r","l","d",QUOTE,")">>

\* the calls made with it: the default lengths, and min_len = 3
HelloParams ==
  { Params(DefaultMinLen, DefaultTopN, EXT_PY, <<>>),
    Params(3, DefaultTopN, EXT_PY, <<>>) }

\* a plain text: one line, or three equal lines
PlainText(line, reps) == Repeat(Cat(line), <<NL>>, reps)

\* first lines of hand-built documents: headers as compress writes them, an
\* object whose "m" is no mapping of strings, JSON values that are no object,
\* and a line that is no JSON at all
HDR_LOCAL == JObj(<< <<K_V, JStr(VERSION_1_2)>>,
                     <<K_M, JObj(<< <<<<TILDE, "0">>, JStr(W_DATA)>> >>)>> >>)
HDR_BAD_M == JObj(<< <<K_M, JNum(0)>> >>)
HDR_BAD_ITEM == JObj(<< <<K_M, JObj(<< <<<<TILDE, "0">>, JNum(0)>> >>)>> >>)

GoodHeaders ==
  { BuildHeader(<<>>, FALSE, 0, <<>>, <<>>),
    BuildHeader(<<>>, FALSE, 0, <<>>, EXT_PY),
    BuildHeader(<<>>, FALSE, 0, <<>>, EXT_ZZ),
    HDR_LOCAL }

NonObjects == {JNum(0), JStr(EXT_PY), JNull, JTrue, JArr(<<>>)}

HeaderLines ==
  {json_dumps(h) : h \in GoodHeaders \cup NonObjects \cup {HDR_BAD_M, HDR_BAD_ITEM}}
  \cup { <<"{", QUOTE, "v", QUOTE>> }

T_G10 == <<TILDE, "^", "a">>     \* global index 10
T_G61 == <<TILDE, "^", "Z">>     \* global index 61: beyond the dictionary
T_T0 == <<TILDE, "*", "0">>      \* type index 0
T_T61 == <<TILDE, "*", "Z">>     \* type index 61: beyond the dictionary
T_L0 == <<TILDE, "0">>           \* local token 0
T_L1 == <<TILDE, "1">>           \* local token 1
ESC == <<TILDE, TILDE>>

\* what the body of a hand-built document is made of
BodyPieces == {T_G10, T_G61, T_T0, T_T61, T_L0, T_L1, ESC, <<" ">>, W_A}

W_LONG == GlobalDict[1]             \* the long word at global index 0

\* what a line of the bytes on stdin is made of
BytePieces == {W_LONG, W_A, <<TILDE>>, <<" ">>, <<"0">>, <<NUL>>, <<BAD>>}

F_PY == <<"f",".","p","y">>

\* a text that shrinks: the word at global index 11 five times, and a
\* one-letter word, the suffix of that word's token, three times
W_B == <<"b">>
CTOR_B == Repeat(GlobalDict[12], <<" ">>, 5) \o <<" ">> \o Repeat(W_B, <<" ">>, 3)

Args(filename, min_len, top_n) ==
  [filename |-> filename, min_len |-> min_len, top_n |-> top_n]

\* --filename / --min-len / --top-n
ArgSets ==
  { Args(<<>>, DefaultMinLen, DefaultTopN),
    Args(F_PY, DefaultMinLen, DefaultTopN),
    Args(<<>>, 1, DefaultTopN) }

\* --------------------------------------------------------------- the state
VARIABLES
  text,       \* the argument of compress, or of a direct call of expand
  parts,      \* the pieces the input was built from
  kind,       \* "plain": a text to compress; "doc": a hand-built document
  hline,      \* the first line of a hand-built document
  p,          \* the parameters of the compress call
  pc,         \* where the run is
  cs,         \* the locals of the compress call
  result,     \* what compress returned, or what `--compress` wrote
  out,        \* what expand returned or raised
  analysis,   \* the classifier's verdict in a `--compress` run
  rng,        \* the state of the process-wide random generator
  first,      \* the document an earlier call of compress returned
  tracker,    \* the ModuleTracker instance of the process
  log,        \* what the calls made so far were given and gave back
  files,      \* a SafeFileOps instance and the files it works on
  chan        \* an IPCChannel, its command file, and the processes on it

vars == <<text, parts, kind, hline, p, pc, cs, result, out, analysis, rng, first,
          tracker, log, files, chan>>

\* what the codec does not touch, and what the other modules do not touch
side == <<tracker, log, files, chan>>
codec == <<text, parts, kind, hline, p, cs, result, out, analysis, rng, first>>

CsNone == [ words |-> <<>>, i |-> 1, compressed_text |-> <<>>, mapping |-> <<>>,
            reverse_mapping |-> <<>>, used_global |-> <<>>, used_type |-> <<>>,
            tokens |-> <<>> ]
ExNone == [ok |-> TRUE, text |-> <<>>, exc |-> "unset"]
FirstNone == [doc |-> <<>>, pre |-> 0, pre2 |-> 0]
AnNone == Analysis("unset", "unset")

\* ModuleTracker.__init__ with nothing loaded: no modules, empty orders
NoTracker == [enabled |-> FALSE, modules |-> <<>>, default_order |-> <<>>, current_order |-> <<>>]
NoFiles == [disk |-> {}, temp_files |-> {}]
NoChan == [file |-> "none"]

IdleSide ==
  /\ tracker = NoTracker
  /\ log = <<>>
  /\ files = NoFiles
  /\ chan = NoChan

IdleCodec ==
  /\ text = <<>>
  /\ parts = <<>>
  /\ hline = <<>>
  /\ p = DefaultParams
  /\ cs = CsNone
  /\ result = <<>>
  /\ out = ExNone
  /\ analysis = AnNone
  /\ rng = 0
  /\ first = FirstNone

Init ==
  /\ pc = "start"
  /\ cs = CsNone
  /\ result = <<>>
  /\ out = ExNone
  /\ analysis = AnNone
  /\ rng = 0
  /\ first = FirstNone
  /\ IdleSide
  /\ \/ /\ kind = "plain"
        /\ hline = <<>>
        /\ parts \in SeqsUpTo(Pieces, MaxPieces)
        /\ \/ text = PlainText(parts, 3) /\ p \in ParamSets
           \/ text = PlainText(parts, 1) /\ p = DefaultParams
     \/ /\ kind = "plain"
        /\ hline = <<>>
        /\ parts = <<HELLO_PY>>
        /\ text = HELLO_PY
        /\ p \in HelloParams
     \/ /\ kind = "doc"
        /\ hline \in HeaderLines
        /\ parts \in SeqsUpTo(BodyPieces, MaxBody)
        /\ text = hline \o <<NL>> \o Cat(parts)
        /\ p = DefaultParams

\* compress, lines 127-174: candidate words, escaping, the longest-first sort
CompressBegin ==
  /\ pc = "start"
  /\ kind = "plain"
  /\ cs' = CompressStart(text, p.min_len, p.top_n)
  /\ pc' = "loop"
  /\ UNCHANGED <<side, rng, first, text, parts, kind, hline, p, result, out, analysis>>

\* compress, lines 176-204: one iteration of the loop over the words
CompressWord ==
  /\ pc = "loop"
  /\ cs.i <= Len(cs.words)
  /\ cs' = LoopStep(cs, p.file_ext)
  /\ UNCHANGED <<side, rng, first, text, parts, kind, hline, p, pc, result, out, analysis>>

\* compress, lines 220-256: header and framing (fuzz is off)
CompressEnd ==
  /\ pc = "loop"
  /\ cs.i > Len(cs.words)
  /\ result' = CompressFinish(cs, FALSE, rng, 0, p.metadata, p.file_ext)
  /\ pc' = "compressed"
  /\ UNCHANGED <<side, rng, first, text, parts, kind, hline, p, cs, out, analysis>>

\* expand(compress(text, ...))
ExpandResult ==
  /\ pc = "compressed"
  /\ out' = expand(result)
  /\ pc' = "expanded"
  /\ UNCHANGED <<side, rng, first, text, parts, kind, hline, p, cs, result, analysis>>

\* expand(text) on an input that compress did not write
ExpandInput ==
  /\ pc = "start"
  /\ out' = expand(text)
  /\ pc' = "expanded_raw"
  /\ UNCHANGED <<side, rng, first, text, parts, kind, hline, p, cs, result, analysis>>

Next == CompressBegin \/ CompressWord \/ CompressEnd \/ ExpandResult \/ ExpandInput

Spec == Init /\ [][Next]_vars

\* ---------------------------------------------- the command line, as runs
InitCLI ==
  /\ pc = "cli_start"
  /\ kind = "bytes"
  /\ hline = <<>>
  /\ cs = CsNone
  /\ result = <<>>
  /\ out = ExNone
  /\ analysis = AnNone
  /\ rng = 0
  /\ first = FirstNone
  /\ IdleSide
  /\ \/ /\ parts \in SeqsUpTo(BytePieces, MaxPieces)
        /\ text \in {PlainText(parts, 1), PlainText(parts, 3)}
        /\ p \in ArgSets
     \/ /\ parts = <<CTOR_B>>
        /\ text = CTOR_B
        /\ p \in {Args(<<>>, DefaultMinLen, DefaultTopN), Args(<<>>, 1, DefaultTopN)}

\* python3 reversible_text.py --compress < text
RunCompress ==
  /\ pc = "cli_start"
  /\ analysis' = analyze_content(text)
  /\ result' = CliCompress(text, analysis', p)
  /\ pc' = "cli_compressed"
  /\ UNCHANGED <<side, rng, first, text, parts, kind, hline, p, cs, out>>

\* python3 reversible_text.py --expand < result
RunExpand ==
  /\ pc = "cli_compressed"
  /\ out' = CliExpand(result)
  /\ pc' = "cli_expanded"
  /\ UNCHANGED <<side, rng, first, text, parts, kind, hline, p, cs, result, analysis>>

NextCLI == RunCompress \/ RunExpand

SpecCLI == InitCLI /\ [][NextCLI]_vars

\* ------------------------------------------- the classifier, as runs
\* byte values that are neither NUL nor whitespace
ByteVals == [i \in 1..251 |-> ToString(i)]

\* the values vals[from+1 .. from+k], each reps times in a row
Block(vals, from, k, reps) ==
  [i \in 1..(k * reps) |-> vals[from + ((i - 1) \div reps) + 1]]

\* a byte sequence with a given histogram: pad equal bytes, then nul NUL
\* bytes, ws spaces, ones values once, twos values twice, fours values four
\* times
Shape(pad, nul, ws, ones, twos, fours) ==
  [pad |-> pad, nul |-> nul, ws |-> ws, ones |-> ones, twos |-> twos, fours |-> fours]

DataOf(sh) ==
  [i \in 1..sh.pad |-> "a"] \o [i \in 1..sh.nul |-> NUL] \o [i \in 1..sh.ws |-> " "]
    \o Block(ByteVals, 0, sh.ones, 1)
    \o Block(ByteVals, sh.ones, sh.twos, 2)
    \o Block(ByteVals, sh.ones + sh.twos, sh.fours, 4)

\* the histograms: the empty input, and samples of 128, 256 or 512 bytes
\* whose counts are powers of two, alone or behind a run of equal bytes that
\* ends at the edge of the NUL window or of the sample
Shapes ==
  { sh \in { Shape(pad, nul, ws, ones, twos, fours) :
               pad \in {0, NullWindow - 1, NullWindow, SampleSize},
               nul \in {0, 1},
               ws \in {0, 8, 16, 32},
               ones \in {0, 128},
               twos \in {0, 64, 112, 120, 124, 248},
               fours \in {0, 2, 64} } :
      /\ sh.ones + sh.twos + sh.fours <= Len(ByteVals)
      /\ sh.ws + sh.ones + 2 * sh.twos + 4 * sh.fours \in {0, 128, 256, 512} }

InitAn ==
  /\ pc = "an_start"
  /\ kind = "bytes"
  /\ hline = <<>>
  /\ parts = <<>>
  /\ cs = CsNone
  /\ result = <<>>
  /\ out = ExNone
  /\ analysis = AnNone
  /\ rng = 0
  /\ first = FirstNone
  /\ IdleSide
  /\ p \in Shapes
  /\ text = DataOf(p)

\* analysis = analyze_content(input_bytes)
Analyze ==
  /\ pc = "an_start"
  /\ analysis' = analyze_content(text)
  /\ pc' = "analyzed"
  /\ UNCHANGED <<side, rng, first, text, parts, kind, hline, p, cs, result, out>>

NextAn == Analyze

SpecAn == InitAn /\ [][NextAn]_vars

\* ------------------------------------- compress with fuzz=True, as runs
\* a document's tail: blank lines, spaces, and text of the form of a fuzz block
FUZZ_LIKE == FUZZ_OPEN \o <<"x", "]">>
TailPieces == { <<" ">>, <<NL>>, <<"]">>, FUZZ_OPEN, FUZZ_LIKE }

\* a text with a word that gets substituted
THRICE == Repeat(W_DATA, <<" ">>, 3)

\* a file name and an extension with newlines in them
NAME_NL == <<"f", NL, ".", "p", NL>>
EXT_NL == <<"p", NL>>

FuzzArgs(seed, metadata, file_ext) ==
  [seed |-> seed, metadata |-> metadata, file_ext |-> file_ext,
   min_len |-> DefaultMinLen, top_n |-> DefaultTopN]

\* the seeds (the default, 42, and 0), with and without metadata
FuzzArgSets ==
  { FuzzArgs(42, <<>>, <<>>),
    FuzzArgs(0, <<>>, EXT_PY),
    FuzzArgs(42, << <<K_NAME, JStr(NAME_NL)>> >>, EXT_NL) }

\* the states other code of the process may leave the generator in
RngStates == 0..2

InitFz ==
  /\ pc = "fz_start"
  /\ kind = "fuzz"
  /\ hline = <<>>
  /\ cs = CsNone
  /\ result = <<>>
  /\ out = ExNone
  /\ analysis = AnNone
  /\ first = FirstNone
  /\ IdleSide
  /\ rng \in RngStates
  /\ parts \in SeqsUpTo(TailPieces, MaxTail)
  /\ text \in {Cat(parts), THRICE \o Cat(parts)}
  /\ p \in FuzzArgSets

\* compress(text, fuzz=True, seed=...), the first call
FuzzCompress ==
  /\ pc = "fz_start"
  /\ cs' = LoopAll(CompressStart(text, p.min_len, p.top_n), p.file_ext)
  /\ result' = compress_fuzz(text, rng, p.seed, p.metadata, p.file_ext, p.min_len, p.top_n)
  /\ first' = [first EXCEPT !.pre = rng]
  /\ rng' = RngAfterFuzz(rng, p.seed)
  /\ pc' = "fz_called"
  /\ UNCHANGED <<side, text, parts, kind, hline, p, out, analysis>>

\* other code of the process uses or seeds the generator
OtherRandom ==
  /\ pc = "fz_called"
  /\ rng' \in RngStates \ {rng}
  /\ UNCHANGED <<side, text, parts, kind, hline, p, pc, cs, result, out, analysis, first>>

\* the same call once more
FuzzCompressAgain ==
  /\ pc = "fz_called"
  /\ result' = compress_fuzz(text, rng, p.seed, p.metadata, p.file_ext, p.min_len, p.top_n)
  /\ first' = [first EXCEPT !.doc = result, !.pre2 = rng]
  /\ rng' = RngAfterFuzz(rng, p.seed)
  /\ pc' = "fz_twice"
  /\ UNCHANGED <<side, text, parts, kind, hline, p, cs, out, analysis>>

\* expand(result)
FuzzExpand ==
  /\ pc \in {"fz_called", "fz_twice"}
  /\ out' = expand(result)
  /\ pc' = "fz_expanded"
  /\ UNCHANGED <<side, rng, first, text, parts, kind, hline, p, cs, result, analysis>>

NextFz == FuzzCompress \/ OtherRandom \/ FuzzCompressAgain \/ FuzzExpand

SpecFuzz == InitFz /\ [][NextFz]_vars

\* ------------------------------------------- get_frequent_phrases, as runs
W_UA == <<"_", "a">>                 \* a word with an underscore

\* the words of a text, each written up to MaxCount times
FreqWords == <<W_A, W_UA, W_DATA>>

\* the orders the three words first occur in
Orders == {o \in [1..3 -> 1..3] : \A i, j \in 1..3 : o[i] = o[j] => i = j}

\* what separates the words: a space, or a digit that glues them together
Separators == {<<" ">>, <<"0">>}

FreqArgSets ==
  { Params(1, DefaultTopN, <<>>, <<>>), Params(1, 2, <<>>, <<>>),
    Params(1, 1, <<>>, <<>>), Params(1, 0, <<>>, <<>>),
    Params(2, DefaultTopN, <<>>, <<>>), Params(2, 1, <<>>, <<>>),
    Params(DefaultMinLen, DefaultTopN, <<>>, <<>>) }

RECURSIVE JoinWith(_, _)
JoinWith(ws, sep) ==
  IF ws = <<>> THEN <<>>
  ELSE IF Len(ws) = 1 THEN ws[1]
  ELSE ws[1] \o sep \o JoinWith(Tail(ws), sep)

InitFq ==
  /\ pc = "fq_start"
  /\ kind = "words"
  /\ hline = <<>>
  /\ cs = CsNone
  /\ result = <<>>
  /\ out = ExNone
  /\ analysis = AnNone
  /\ rng = 0
  /\ first = FirstNone
  /\ IdleSide
  /\ \E o \in Orders, c \in [1..3 -> 0..MaxCount] :
       parts = Cat([k \in 1..3 |-> [j \in 1..c[o[k]] |-> FreqWords[o[k]]]])
  /\ \E sep \in Separators : text = JoinWith(parts, sep)
  /\ p \in FreqArgSets

\* words = get_frequent_phrases(text, min_len, top_n)
FrequentPhrases ==
  /\ pc = "fq_start"
  /\ cs' = [cs EXCEPT !.words = get_frequent_phrases(text, p.min_len, p.top_n)]
  /\ pc' = "fq_done"
  /\ UNCHANGED <<side, rng, first, text, parts, kind, hline, p, result, out, analysis>>

NextFq == FrequentPhrases

SpecFreq == InitFq /\ [][NextFq]_vars

\* ------------------------------------ a token for an index, and back again
\* a dictionary with a word at every index up to MaxIndex: w0, w1, ...
LongDict == [k \in 1..(MaxIndex + 1) |-> <<"w">> \o IntToStr(k - 1)]

TokenArgs(idx, prefix) == [idx |-> idx, prefix |-> prefix]

InitIx ==
  /\ pc = "ix_start"
  /\ kind = "index"
  /\ hline = <<>>
  /\ parts = <<>>
  /\ text = <<>>
  /\ cs = CsNone
  /\ result = <<>>
  /\ out = ExNone
  /\ analysis = AnNone
  /\ rng = 0
  /\ first = FirstNone
  /\ IdleSide
  /\ p \in {TokenArgs(idx, prefix) : idx \in 0..MaxIndex, prefix \in {P_GLOBAL, P_TYPE}}

\* token = get_token(idx, prefix), for a word found at idx in a dictionary
EmitToken ==
  /\ pc = "ix_start"
  /\ result' = get_token(p.idx, p.prefix)
  /\ pc' = "ix_token"
  /\ UNCHANGED <<side, rng, first, text, parts, kind, hline, p, cs, out, analysis>>

\* replace_func on that token, with the dictionary the word came from
ResolveToken ==
  /\ pc = "ix_token"
  /\ out' = replace_func(result, JObj(<<>>),
                         IF p.prefix = P_GLOBAL THEN LongDict ELSE <<>>,
                         IF p.prefix = P_TYPE THEN LongDict ELSE <<>>)
  /\ pc' = "ix_resolved"
  /\ UNCHANGED <<side, rng, first, text, parts, kind, hline, p, cs, result, analysis>>

NextIx == EmitToken \/ ResolveToken

SpecIx == InitIx /\ [][NextIx]_vars

\* ------------------------------------- sigil tokens as a document has them
\* suffixes the token pattern ~[\^\*]?[0-9a-zA-Z]+ can match
MaxSuffix == 2       \* characters in the suffix of a hand-built token

SuffixChars == {"0", "1", "2", "6", "9", "a", "b", "A", "Z"}

RECURSIVE SuffixesOf(_)
SuffixesOf(n) ==
  IF n = 0 THEN {<<>>}
  ELSE {<<c>> \o s : c \in SuffixChars, s \in SuffixesOf(n - 1)}

Suffixes ==
  UNION {SuffixesOf(n) : n \in 1..MaxSuffix}
    \cup {<<"0", "6", "2">>, <<"1", "0", "0">>, <<"1", "1", "0">>, <<"9", "9", "9">>}

InitTok ==
  /\ pc = "ix_token"
  /\ kind = "token"
  /\ hline = <<>>
  /\ parts = <<>>
  /\ text = <<>>
  /\ cs = CsNone
  /\ out = ExNone
  /\ analysis = AnNone
  /\ rng = 0
  /\ first = FirstNone
  /\ IdleSide
  /\ \E prefix \in {P_GLOBAL, P_TYPE}, suffix \in Suffixes :
       /\ p = TokenArgs(0, prefix)
       /\ result = prefix \o suffix

NextTok == ResolveToken

SpecTok == InitTok /\ [][NextTok]_vars

\* --------------------------- calls of compress and expand in one process
DevArgs(file_ext, fuzz, shuffle_stages) ==
  [min_len |-> DefaultMinLen, top_n |-> DefaultTopN, file_ext |-> file_ext,
   metadata |-> <<>>, seed |-> 42, fuzz |-> fuzz, shuffle_stages |-> shuffle_stages]

\* texts in which a local, a global and a type word is substituted, and one
\* with a marker and no word
T_LOCAL == Repeat(W_DATA, <<" ">>, 3)
T_GLOBAL == Repeat(W_LONG, <<" ">>, 3)
T_TYPE == Repeat(W_SELF, <<" ">>, 3)
\* a marker, a word of both dictionaries, a type word and a local word
T_MIX ==
  Repeat(<<TILDE, " ">> \o W_FROM \o <<" ">> \o W_SELF \o <<" ">> \o W_DATA, <<" ">>, 3)

\* the calls a process makes: <<text, parameters>>
DevCalls ==
  { <<T_LOCAL, DevArgs(<<>>, FALSE, FALSE)>>,
    <<T_GLOBAL, DevArgs(<<>>, FALSE, FALSE)>>,
    <<T_TYPE, DevArgs(EXT_PY, FALSE, FALSE)>>,
    <<<<TILDE>>, DevArgs(<<>>, FALSE, TRUE)>>,
    <<T_LOCAL, DevArgs(<<>>, FALSE, TRUE)>>,
    <<T_LOCAL, DevArgs(<<>>, TRUE, FALSE)>>,
    <<T_LOCAL, DevArgs(<<>>, TRUE, TRUE)>>,
    <<T_MIX, DevArgs(EXT_PY, FALSE, FALSE)>>,
    <<T_MIX, DevArgs(EXT_PY, FALSE, TRUE)>> }

\* the tracker state a process starts with: nothing loaded, or a state file
\* that has statistics of a module named global_dict
LoadedTrackers ==
  { NoTracker.modules,
    <<ModuleStats("global_dict")>> }

\* one entry of the log: a call, and what it returned or raised
Logged(op, txt, args, s, ok, doc) ==
  [op |-> op, text |-> txt, args |-> args, s |-> s, ok |-> ok, doc |-> doc]

InitDev ==
  /\ pc = "dev_idle"
  /\ kind = "process"
  /\ IdleCodec
  /\ log = <<>>
  /\ files = NoFiles
  /\ chan = NoChan
  /\ \E dev \in BOOLEAN, loaded \in LoadedTrackers :
       tracker = [enabled |-> dev,
                  modules |-> IF dev THEN loaded ELSE <<>>,
                  default_order |-> <<>>, current_order |-> <<>>]

\* compress, lines 112-148: the call, the shuffle, the escaping and its
\* tracking, the candidate words
DevBegin ==
  /\ pc = "dev_idle"
  /\ Len(log) < MaxCalls
  /\ \E c \in DevCalls :
       /\ text' = c[1]
       /\ p' = c[2]
       /\ first' = [first EXCEPT !.pre = rng]
       /\ rng' = RngAtFuzz(tracker, rng, c[2].shuffle_stages)
       /\ tracker' = Track(TrOk(tracker), "escape_tildes").t
       /\ IF Track(TrOk(tracker), "escape_tildes").ok
          THEN /\ cs' = CompressStart(c[1], c[2].min_len, c[2].top_n)
               /\ pc' = "dev_loop"
               /\ log' = log
          ELSE /\ cs' = CsNone
               /\ pc' = "dev_idle"
               /\ log' = Append(log, Logged("compress", c[1], c[2], rng, FALSE, <<>>))
  /\ UNCHANGED <<parts, kind, hline, result, out, analysis, files, chan>>

\* compress, lines 176-204: one iteration of the loop
DevWord ==
  /\ pc = "dev_loop"
  /\ cs.i <= Len(cs.words)
  /\ cs' = LoopStep(cs, p.file_ext)
  /\ UNCHANGED <<side, text, parts, kind, hline, p, pc, result, out, analysis, rng, first>>

\* compress, lines 206-256: the tracking of the loop, the fuzz block, the
\* header, the tracking of the header, the return
DevEnd ==
  /\ pc = "dev_loop"
  /\ cs.i > Len(cs.words)
  /\ tracker' = TrackAfterLoop(TrOk(tracker), cs).t
  /\ rng' = IF p.fuzz THEN RngAfterFuzz(rng, p.seed) ELSE rng
  /\ result' = IF TrackAfterLoop(TrOk(tracker), cs).ok
               THEN CompressFinish(cs, p.fuzz /\ RandomLow(rng), RngStep(rng),
                                   p.seed, p.metadata, p.file_ext)
               ELSE result
  /\ log' = Append(log, Logged("compress", text, p, first.pre,
                               TrackAfterLoop(TrOk(tracker), cs).ok,
                               IF TrackAfterLoop(TrOk(tracker), cs).ok THEN result' ELSE <<>>))
  /\ pc' = "dev_idle"
  /\ UNCHANGED <<text, parts, kind, hline, p, cs, out, analysis, first, files, chan>>

\* expand(result), for the document the last successful compress returned
DevExpand ==
  /\ pc = "dev_idle"
  /\ Len(log) < MaxCalls
  /\ result # <<>>
  /\ out' = expand(result)
  /\ log' = Append(log, Logged("expand", result, DevArgs(<<>>, FALSE, FALSE), rng,
                               out'.ok, out'.text))
  /\ UNCHANGED <<text, parts, kind, hline, p, pc, cs, result, analysis, rng, first,
                 tracker, files, chan>>

NextDev == DevBegin \/ DevWord \/ DevEnd \/ DevExpand

SpecDev == InitDev /\ [][NextDev]_vars

\* ------------------------------------- the order of the tracker's modules
MaxModules == 3      \* module names the tracker is called with

StageNames == <<"escape_tildes", "global_dict", "type_dict", "local_dict">>

ModuleNames == {StageNames[k] : k \in 1..MaxModules}

InitOrder ==
  /\ pc = "order"
  /\ kind = "tracker"
  /\ IdleCodec
  /\ log = <<>>
  /\ files = NoFiles
  /\ chan = NoChan
  /\ \E dev \in BOOLEAN : tracker = [NoTracker EXCEPT !.enabled = dev]

RegisterModule ==
  /\ pc = "order"
  /\ \E name \in ModuleNames, order_index \in {NoIndex, <<0>>, <<1>>} :
       tracker' = register_module(tracker, name, order_index)
  /\ UNCHANGED <<codec, pc, log, files, chan>>

DisableModule ==
  /\ pc = "order"
  /\ \E name \in ModuleNames : tracker' = disable_module(tracker, name)
  /\ UNCHANGED <<codec, pc, log, files, chan>>

EnableModule ==
  /\ pc = "order"
  /\ \E name \in ModuleNames : tracker' = enable_module(tracker, name)
  /\ UNCHANGED <<codec, pc, log, files, chan>>

NextOrder == RegisterModule \/ DisableModule \/ EnableModule

SpecOrder == InitOrder /\ [][NextOrder]_vars

\* ------------------------------------- IPCChannel: the command file
\* A controller process calls send_command and a worker process calls
\* check_command on the same command file.  chan.file is what the path
\* holds: ABSENT, EMPTY (the file just opened with 'w'), or the number of the
\* send whose JSON it holds.  A step is one system call of one process.
MaxSends == 2        \* send_command calls of the controller

ABSENT == -1
EMPTY == 0

Commands == {"stop", "pause", "resume"}

NewChan ==
  [file |-> ABSENT,
   sent |-> <<>>,          \* the cmd of each send_command call, by number
   spc |-> "idle",         \* the controller's place in send_command
   linked |-> FALSE,       \* the controller's open file is the one at the path
   done |-> {},            \* the sends that returned
   overwritten |-> {},     \* commands truncated away by a later send, unread
   wpc |-> "idle",         \* the worker's place in check_command
   wdata |-> EMPTY,        \* the command json.load gave
   got |-> <<>>,           \* what check_command returned, in order
   paused |-> FALSE,
   stopped |-> FALSE]

InitIPC ==
  /\ pc = "ipc"
  /\ kind = "ipc"
  /\ IdleCodec
  /\ tracker = NoTracker
  /\ log = <<>>
  /\ files = NoFiles
  /\ chan = NewChan

Unread(c) == c.file > EMPTY /\ ~(c.wpc = "read" /\ c.wdata = c.file)

\* send_command: open(self.command_file, 'w') creates the file or truncates
\* the one that is there
SendOpen ==
  /\ pc = "ipc"
  /\ chan.spc = "idle"
  /\ Len(chan.sent) < MaxSends
  /\ \E cmd \in Commands :
       chan' = [chan EXCEPT !.sent = Append(@, cmd),
                            !.spc = "opened",
                            !.linked = TRUE,
                            !.overwritten = IF Unread(chan) THEN @ \cup {chan.file} ELSE @,
                            !.file = EMPTY]
  /\ UNCHANGED <<codec, pc, tracker, log, files>>

\* send_command: fcntl.flock(f, LOCK_EX)
SendLock ==
  /\ pc = "ipc"
  /\ chan.spc = "opened"
  /\ chan' = [chan EXCEPT !.spc = "locked"]
  /\ UNCHANGED <<codec, pc, tracker, log, files>>

\* send_command: json.dump(data, f) into the buffer of f, then LOCK_UN
SendUnlock ==
  /\ pc = "ipc"
  /\ chan.spc = "locked"
  /\ chan' = [chan EXCEPT !.spc = "unlocked"]
  /\ UNCHANGED <<codec, pc, tracker, log, files>>

\* send_command: the end of the with block writes the buffer to the open
\* file, which the path no longer names if the worker has unlinked it
SendClose ==
  /\ pc = "ipc"
  /\ chan.spc = "unlocked"
  /\ chan' = [chan EXCEPT !.spc = "idle",
                          !.done = @ \cup {Len(chan.sent)},
                          !.file = IF chan.linked THEN Len(chan.sent) ELSE @,
                          !.linked = FALSE]
  /\ UNCHANGED <<codec, pc, tracker, log, files>>

\* check_command: `if not self.command_file.exists(): return None`
CheckExists ==
  /\ pc = "ipc"
  /\ chan.wpc = "idle"
  /\ ~chan.stopped
  /\ chan' = IF chan.file = ABSENT THEN chan ELSE [chan EXCEPT !.wpc = "exists"]
  /\ UNCHANGED <<codec, pc, tracker, log, files>>

\* check_command: open, LOCK_SH (waits while the controller holds LOCK_EX),
\* json.load, LOCK_UN; an empty file raises, and `except: return None`
CheckRead ==
  /\ pc = "ipc"
  /\ chan.wpc = "exists"
  /\ chan.spc # "locked"
  /\ chan' = IF chan.file = EMPTY THEN [chan EXCEPT !.wpc = "idle"]
             ELSE [chan EXCEPT !.wpc = "read", !.wdata = chan.file]
  /\ UNCHANGED <<codec, pc, tracker, log, files>>

\* check_command: self.command_file.unlink(); return data -- and what
\* ml_training_worker does with the command
CheckUnlink ==
  /\ pc = "ipc"
  /\ chan.wpc = "read"
  /\ chan' = [chan EXCEPT !.wpc = "idle",
                          !.file = ABSENT,
                          !.linked = FALSE,
                          !.got = Append(@, chan.wdata),
                          !.stopped = chan.sent[chan.wdata] = "stop",
                          !.paused = IF chan.sent[chan.wdata] = "pause" THEN TRUE
                                     ELSE IF chan.sent[chan.wdata] = "resume" THEN FALSE
                                     ELSE @]
  /\ UNCHANGED <<codec, pc, tracker, log, files>>

NextIPC ==
  SendOpen \/ SendLock \/ SendUnlock \/ SendClose \/ CheckExists \/ CheckRead \/ CheckUnlink

SpecIPC == InitIPC /\ [][NextIPC]_vars

\* ------------------------------------------------------- SafeFileOps
\* SafetyConfig: the three switches the operations could depend on
SafetyConfig(deletion, cleanup, logging) ==
  [allow_user_file_deletion |-> deletion, allow_temp_cleanup |-> cleanup,
   log_all_operations |-> logging]

\* paths: a user's file, a path under /etc, two names mkstemp can give, and
\* the empty string
P_USER == "notes.txt"
P_ETC == "/etc/x"
P_TMP1 == "/tmp/optimizer_1.tmp"
P_TMP2 == "/tmp/optimizer_2.tmp"
P_EMPTY == ""
TempNames == {P_TMP1, P_TMP2}
Paths == {P_USER, P_ETC, P_EMPTY} \cup TempNames

\* _is_protected: the protected_patterns
IsProtected(path) == path = P_ETC

\* A SafeFileOps instance and its surroundings: the files that exist (disk),
\* the tracked set (temp_files), the number of lines in the safety log
\* (audit), what the last operation was and raised (last), and, as history,
\* the files safe_write_temp made (made) and every removal (gone).
NewFiles(config, disk) ==
  [config |-> config, disk |-> disk, temp_files |-> {}, audit |-> 0,
   last |-> [op |-> "none", path |-> "None", exc |-> "none"], made |-> {}, gone |-> {},
   nops |-> 0, exited |-> FALSE]

\* the operation's name and outcome, and one operation more
Did(f, op, path, exc) ==
  [f EXCEPT !.last = [op |-> op, path |-> path, exc |-> exc], !.nops = @ + 1]

\* _SAFETY_LOGGER.log: one line appended to the log file
Logs(f, n) == [f EXCEPT !.audit = @ + n]

\* path.unlink()
Unlinks(f, gone) ==
  [f EXCEPT !.disk = @ \ gone,
            !.gone = @ \cup { [path |-> q, tracked |-> q \in f.temp_files,
                               made |-> q \in f.made] : q \in gone }]

safe_read(f, path) ==
  Did(Logs(f, IF f.config.log_all_operations THEN 1 ELSE 0), "safe_read", path,
      IF path \in f.disk THEN "none" ELSE "FileNotFoundError")

\* path is the name tempfile.mkstemp gave: one that did not exist
safe_write_temp(f, path) ==
  Did(Logs([f EXCEPT !.disk = @ \cup {path}, !.temp_files = @ \cup {path},
                     !.made = @ \cup {path}],
           IF f.config.log_all_operations THEN 1 ELSE 0),
      "safe_write_temp", path, "none")

safe_write_new(f, path, overwrite) ==
  IF IsProtected(path) THEN Did(f, "safe_write_new", path, "ProtectedPathViolation")
  ELSE IF path \in f.disk /\ ~overwrite THEN Did(f, "safe_write_new", path, "SafetyViolation")
  ELSE Did(Logs([f EXCEPT !.disk = @ \cup {path}],
                IF f.config.log_all_operations THEN 1 ELSE 0),
           "safe_write_new", path, "none")

\* cleanup_temp with every tracked file cleaned
CleanupAll(f) ==
  [Logs(Unlinks(f, f.temp_files \cap f.disk),
        IF f.config.log_all_operations THEN Cardinality(f.temp_files \cap f.disk) ELSE 0)
   EXCEPT !.temp_files = {}]

\* cleanup_temp with one file cleaned, if it is tracked
CleanupOne(f, path) ==
  IF path \notin f.temp_files THEN f
  ELSE [Logs(Unlinks(f, {path} \cap f.disk),
             IF f.config.log_all_operations /\ path \in f.disk THEN 1 ELSE 0)
        EXCEPT !.temp_files = @ \ {path}]

\* cleanup_temp(path); path is "None" for the default. `if path:` is false
\* for None and for the empty string
cleanup_temp(f, path) ==
  IF ~f.config.allow_temp_cleanup THEN Did(Logs(f, 1), "cleanup_temp", path, "none")
  ELSE IF path \notin {"None", P_EMPTY} THEN Did(CleanupOne(f, path), "cleanup_temp", path, "none")
  ELSE Did(CleanupAll(f), "cleanup_temp", path, "none")

\* a delete_file that removes what the configuration allows to be removed
delete_file_allowed(f, path, op) ==
  IF f.config.allow_user_file_deletion \/ path \in f.temp_files
  THEN Did(Unlinks(f, {path} \cap f.disk), op, path, "none")
  ELSE Did(Logs(f, 1), op, path, "DeletionBlocked")

\* delete_file, and remove and unlink, which call it; rmtree does the same
\* under its own name
delete_file(f, path, op) == Did(Logs(f, 1), op, path, "DeletionBlocked")

BlockedOps == {"delete_file", "remove", "unlink", "rmtree"}

InitFiles ==
  /\ pc = "files"
  /\ kind = "files"
  /\ IdleCodec
  /\ tracker = NoTracker
  /\ log = <<>>
  /\ chan = NoChan
  /\ \E d, c, l \in BOOLEAN, disk \in SUBSET {P_USER, P_TMP2} :
       files = NewFiles(SafetyConfig(d, c, l), disk)

Running == pc = "files" /\ ~files.exited /\ files.nops < MaxOps

SafeRead ==
  /\ Running
  /\ \E path \in {P_USER, P_TMP1} : files' = safe_read(files, path)
  /\ UNCHANGED <<codec, pc, tracker, log, chan>>

SafeWriteTemp ==
  /\ Running
  /\ \E path \in TempNames \ files.disk : files' = safe_write_temp(files, path)
  /\ UNCHANGED <<codec, pc, tracker, log, chan>>

SafeWriteNew ==
  /\ Running
  /\ \E path \in {P_USER, P_ETC, P_TMP1}, overwrite \in BOOLEAN :
       files' = safe_write_new(files, path, overwrite)
  /\ UNCHANGED <<codec, pc, tracker, log, chan>>

CleanupTemp ==
  /\ Running
  /\ \E path \in Paths \cup {"None"} : files' = cleanup_temp(files, path)
  /\ UNCHANGED <<codec, pc, tracker, log, chan>>

BlockedDelete ==
  /\ Running
  /\ \E path \in Paths, op \in BlockedOps : files' = delete_file(files, path, op)
  /\ UNCHANGED <<codec, pc, tracker, log, chan>>

\* _atexit_cleanup, when the process ends
AtExit ==
  /\ pc = "files"
  /\ ~files.exited
  /\ files' = [cleanup_temp(files, "None") EXCEPT !.exited = TRUE, !.last.op = "atexit"]
  /\ UNCHANGED <<codec, pc, tracker, log, chan>>

NextFiles ==
  SafeRead \/ SafeWriteTemp \/ SafeWriteNew \/ CleanupTemp \/ BlockedDelete \/ AtExit

SpecFiles == InitFiles /\ [][NextFiles]_vars

\* ---------------------------------------------------------- the properties
FirstLine(t) == SubSeq(t, 1, IndexOf(t, NL) - 1)
Body(t) == Drop(t, IndexOf(t, NL))
InLoop == pc \in {"loop", "compressed", "expanded"}
TypeDictOf(file_ext) == IF file_ext # <<>> THEN get_type_specific(file_ext) ELSE <<>>

\* C1 as stated: expand(compress(t, params)) = t for every text and every
\* accepted parameter combination (min_len >= 1, any top_n, any extension)
C1_RoundTrip == pc = "expanded" => (out.ok /\ out.text = text)

\* C3: a text that contains the marker, compressed with a min_len that is
\* 2 or more (the default is 4), expands to itself
C3_TildeRoundTrip ==
  (pc = "expanded" /\ Contains(text, TILDE) /\ p.min_len >= 2)
    => (out.ok /\ out.text = text)

C3_Witness ==
  /\ pc = "expanded"
  /\ parts = <<<<TILDE>>, W_FROM, <<TILDE>>>>
  /\ p = DefaultParams
  /\ cs.tokens = <<T_G10>>
  /\ out.text = text

\* C4 as stated: an input without a newline, or whose first line does not
\* parse as a header (a JSON object), is returned unchanged
C4_Fallback ==
  (pc = "expanded_raw"
     /\ (~Contains(text, NL)
           \/ ~json_loads(FirstLine(text)).ok
           \/ json_loads(FirstLine(text)).v.t # "obj"))
    => out = ExOk(text)

\* C5 as stated: expand returns a string for every input and never raises
C5_ExpandTotal == pc \in {"expanded", "expanded_raw"} => out.ok

\* C6: in a document with a well-formed header, a token that resolves to
\* nothing (an index beyond the global or type dictionary, no or an unknown
\* "ext", a sigil-less token that "m" lacks) comes out verbatim, and every
\* other piece of the body decodes as it does on its own
IsTokenPiece(x) == x \in {T_G10, T_G61, T_T0, T_T61, T_L0, T_L1}

Delimited(ps) ==
  \A i \in 1..(Len(ps) - 1) : IsTokenPiece(ps[i]) => ps[i + 1][1] \notin Alnum

GoodHeaderOf(line) == CHOOSE h \in GoodHeaders : json_dumps(h) = line

\* what one piece of a body stands for under header h
PieceDecode(x, h) ==
  IF x = ESC THEN <<TILDE>>
  ELSE IF x \in {T_L0, T_L1}
       THEN (IF HasKey(ObjGet(h, K_M, JNull), x) THEN ObjGet(ObjGet(h, K_M, JNull), x, JNull).s
             ELSE x)
  ELSE IF x = T_G10 THEN GlobalDict[11]
  ELSE IF x = T_T0 /\ ObjGet(h, K_EXT, JNull) = JStr(EXT_PY) THEN PyDict[1]
  ELSE x

C6_Unresolved ==
  (pc = "expanded_raw" /\ kind = "doc" /\ Delimited(parts)
     /\ hline \in {json_dumps(h) : h \in GoodHeaders})
    => out = ExOk(Cat([i \in 1..Len(parts) |-> PieceDecode(parts[i], GoodHeaderOf(hline))]))

C6_Witness ==
  /\ pc = "expanded_raw"
  /\ kind = "doc"
  /\ hline = json_dumps(HDR_LOCAL)
  /\ parts \in {<<T_G61, T_G10>>, <<T_T0, T_L0>>, <<T_L1, ESC>>}
  /\ out \in {ExOk(T_G61 \o W_FROM), ExOk(T_T0 \o W_DATA), ExOk(T_L1 \o <<TILDE>>)}

\* C7: every processed word has exactly one tier: a global-dictionary word a
\* ~^ token (also when the type dictionary holds it), a type-only word a ~*
\* token, and only a word of neither a local token and a mapping entry
TierOK(j) ==
  LET w == cs.words[j]
      t == cs.tokens[j]
      g == IndexOf(GlobalDict, w) - 1
      y == IndexOf(TypeDictOf(p.file_ext), w) - 1
      inM == \E k \in 1..Len(cs.mapping) : cs.mapping[k][1] = w
  IN /\ g >= 0 => /\ t = P_GLOBAL \o <<chars[g + 1]>>
                  /\ Contains(cs.used_global, g)
                  /\ ~inM
                  /\ ~Contains(cs.used_type, y)
     /\ (g < 0 /\ y >= 0) => /\ t = P_TYPE \o <<chars[y + 1]>>
                             /\ Contains(cs.used_type, y)
                             /\ ~inM
     /\ (g < 0 /\ y < 0) => /\ Len(t) = 2 /\ t[1] = TILDE /\ t[2] \in Alnum
                            /\ Contains(cs.mapping, <<w, t>>)
                            /\ Contains(cs.reverse_mapping, <<t, w>>)
     /\ inM => (g < 0 /\ y < 0)

C7_TierPriority == InLoop => \A j \in 1..(cs.i - 1) : TierOK(j)

C7_Witness ==
  /\ pc = "compressed"
  /\ p.file_ext = EXT_PY
  /\ cs.words = <<W_FROM, W_SELF>>
  /\ cs.tokens = <<T_G10, T_T0>>

\* C8: the words are processed longest first, and a step of the loop replaces
\* exactly the whole-word occurrences of its word by its token: every other
\* run of word characters, a longer word that contains the word included,
\* stays as it is
RECURSIVE Lexemes(_, _)
\* the maximal runs of word characters and the single characters between them
Lexemes(s, i) ==
  IF i > Len(s) THEN <<>>
  ELSE IF s[i] \in WordChars
       THEN <<SubSeq(s, i, RunEnd(s, i, WordChars) - 1)>> \o Lexemes(s, RunEnd(s, i, WordChars))
       ELSE <<<<s[i]>>>> \o Lexemes(s, i + 1)

MapLexemes(lex, w, t) == Cat([k \in 1..Len(lex) |-> IF lex[k] = w THEN t ELSE lex[k]])

LongestFirst(ws) == \A j, k \in 1..Len(ws) : j < k => Len(ws[j]) >= Len(ws[k])

C8_Step ==
  /\ pc' = "loop" => LongestFirst(cs'.words)
  /\ (pc = "loop" /\ pc' = "loop") =>
       cs'.compressed_text =
         MapLexemes(Lexemes(cs.compressed_text, 1), cs.words[cs.i], cs'.tokens[cs.i])

C8_LongestFirst == [][C8_Step]_vars

C8_Witness ==
  /\ pc = "loop"
  /\ p.min_len = 1
  /\ parts = <<W_DATA, <<" ">>, W_A>>
  /\ cs.words = <<W_DATA, W_A>>
  /\ cs.i = 3
  /\ cs.compressed_text = Repeat(T_L0 \o <<" ">> \o T_L1, <<NL>>, 3)

\* C9: in the document compress returns, every sigil-less token of the body
\* is a key of the header's "m", "m" holds only words of neither dictionary,
\* and every ~^ / ~* token carries an index inside its dictionary at which a
\* substituted word stands
RECURSIVE BodyTokens(_, _)
\* the matches of the token pattern, left to right
BodyTokens(s, i) ==
  IF i > Len(s) THEN <<>>
  ELSE IF TokenMatchEnd(s, i) = 0 THEN BodyTokens(s, i + 1)
  ELSE <<SubSeq(s, i, TokenMatchEnd(s, i) - 1)>> \o BodyTokens(s, TokenMatchEnd(s, i))

SuffixIndex(tok) == IF Len(tok) = 3 THEN IndexOf(chars, tok[3]) - 1 ELSE -1

TokenOK(tok, m) ==
  \/ tok = ESC
  \/ tok[2] \in Alnum /\ HasKey(m, tok) /\ Contains(cs.words, ObjGet(m, tok, JNull).s)
  \/ /\ tok[2] = "^"
     /\ SuffixIndex(tok) \in 0..(Len(GlobalDict) - 1)
     /\ Contains(cs.words, GlobalDict[SuffixIndex(tok) + 1])
  \/ /\ tok[2] = "*"
     /\ SuffixIndex(tok) \in 0..(Len(TypeDictOf(p.file_ext)) - 1)
     /\ Contains(cs.words, TypeDictOf(p.file_ext)[SuffixIndex(tok) + 1])

LocalOnly(m) ==
  \A k \in 1..Len(m.kv) :
    /\ m.kv[k][2].t = "str"
    /\ ~Contains(GlobalDict, m.kv[k][2].s)
    /\ ~Contains(TypeDictOf(p.file_ext), m.kv[k][2].s)

HeaderM(doc) == ObjGet(json_loads(FirstLine(doc)).v, K_M, JNull)

C9_TokensResolvable ==
  pc \in {"compressed", "expanded"} =>
    /\ json_loads(FirstLine(result)).ok
    /\ HeaderM(result).t = "obj"
    /\ LocalOnly(HeaderM(result))
    /\ \A k \in 1..Len(BodyTokens(Body(result), 1)) :
         TokenOK(BodyTokens(Body(result), 1)[k], HeaderM(result))

C9_Witness ==
  /\ pc = "compressed"
  /\ parts = <<W_FROM, <<" ">>, W_DATA>>
  /\ p = DefaultParams
  /\ Body(result) = Repeat(T_G10 \o <<" ">> \o T_L0, <<NL>>, 3)
  /\ HeaderM(result) = JObj(<< <<T_L0, JStr(W_DATA)>> >>)

\* C2 as stated: --compress then --expand gives back every non-empty input
C2_CliRoundTrip ==
  (pc = "cli_expanded" /\ text # <<>>) => (out.ok /\ out.text = text)

\* C10: a NUL byte within the first 1024 bytes makes the classifier say
\* binary/pass, and `--compress` writes the input bytes as they are
C10_NulPassThrough ==
  (pc \in {"cli_compressed", "cli_expanded"} /\ Contains(Take(text, NullWindow), NUL))
    => (analysis = Analysis("binary", "pass") /\ result = text)

C10_Witness ==
  /\ pc = "cli_compressed"
  /\ Contains(text, NUL)
  /\ Contains(parts, W_LONG)
  /\ Len(text) > Len(Cat(parts))
  /\ result = text

\* C11: analyze_content returns, for every input, the one kind of the
\* decision table taken in its order (empty; NUL in the first 1024 bytes;
\* entropy of the first 4096 bytes above 7.5; whitespace below 5% and entropy
\* above 6.0; text), and the action is compress exactly for the kind text
SampleOf(data) == Take(data, SampleSize)
EntropyAbove(data, halves) == 2 * calculate_entropy(SampleOf(data)) > halves * Len(SampleOf(data))
WsBelow5(data) ==
  100 * Cardinality({i \in 1..Len(SampleOf(data)) : SampleOf(data)[i] \in Whitespace})
    < 5 * Len(SampleOf(data))
HasEarlyNul(data) == \E i \in 1..Len(data) : i <= NullWindow /\ data[i] = NUL

C11_DecisionTable ==
  pc = "analyzed" =>
    /\ analysis.type = "empty" <=> text = <<>>
    /\ analysis.type = "binary" <=> (text # <<>> /\ HasEarlyNul(text))
    /\ analysis.type = "high_entropy"
         <=> (text # <<>> /\ ~HasEarlyNul(text) /\ EntropyAbove(text, 15))
    /\ analysis.type = "binary_likely"
         <=> (text # <<>> /\ ~HasEarlyNul(text) /\ ~EntropyAbove(text, 15)
                /\ WsBelow5(text) /\ EntropyAbove(text, 12))
    /\ analysis.type = "text"
         <=> (text # <<>> /\ ~HasEarlyNul(text) /\ ~EntropyAbove(text, 15)
                /\ ~(WsBelow5(text) /\ EntropyAbove(text, 12)))
    /\ analysis.action = "compress" <=> analysis.type = "text"
    /\ analysis.action \in {"compress", "pass"}

\* an input of 512 bytes with entropy near 8 and under 5% whitespace: both
\* tests of the table apply and the first one decides
C11_Witness ==
  /\ pc = "analyzed"
  /\ p = Shape(0, 0, 16, 0, 248, 0)
  /\ EntropyAbove(text, 15) /\ WsBelow5(text)
  /\ analysis = Analysis("high_entropy", "pass")

\* C12 as stated, for the function: compress of the empty text returns the
\* empty text, without a header line
EmptyCall == compress(<<>>, FileMeta(p.filename), FileExt(p.filename), p.min_len, p.top_n)

HasTypeToken(body) ==
  \E k \in 1..Len(BodyTokens(body, 1)) : StartsWith(BodyTokens(body, 1)[k], P_TYPE)

C13_AsStated ==
  (pc = "compressed" /\ text = HELLO_PY)
    => (HasTypeToken(Body(result)) /\ StrFind(Body(result), PyDict[3]) = -1
          /\ StrFind(Body(result), PyDict[4]) = -1)

\* C14: expand of a document compress made with fuzz=True returns the text:
\* with the fuzz branch taken only the appended block is removed, also when
\* the text ends with spaces, blank lines or text of the form of a fuzz
\* block, and without the flag in the header nothing is removed
HasFuzzFlag(doc) == HasKey(json_loads(FirstLine(doc)).v, K_F)

C14_FuzzRemoved == pc = "fz_expanded" => out = ExOk(text)

C14_Witness ==
  /\ pc = "fz_expanded"
  /\ HasFuzzFlag(result)
  /\ parts = <<FUZZ_LIKE, <<NL>>>>
  /\ text = THRICE \o Cat(parts)
  /\ Len(Body(result)) > Len(cs.compressed_text)
  /\ out = ExOk(text)

\* C15: two calls of compress with fuzz=True, the same text and the same
\* seed, that both take the fuzz branch return the same document (block,
\* flag and seed), whatever state the generator was in before each call
C15_FuzzReproducible ==
  (pc = "fz_twice" /\ HasFuzzFlag(first.doc) /\ HasFuzzFlag(result))
    => /\ result = first.doc
       /\ ObjGet(json_loads(FirstLine(result)).v, K_S, JNull) = JNum(p.seed)
       /\ ObjGet(json_loads(FirstLine(result)).v, K_F, JNull) = JNum(1)

C15_Witness ==
  /\ pc = "fz_twice"
  /\ HasFuzzFlag(first.doc) /\ HasFuzzFlag(result)
  /\ first.pre # first.pre2
  /\ RngStep(first.pre) # RngStep(first.pre2)
  /\ result = first.doc

\* C16: the header compress writes holds no newline, whatever the mapping,
\* the metadata and the extension are, so the first newline of the document
\* ends the header: the line before it parses to the header compress built
\* and what follows it is the body compress built
BuiltHeader ==
  BuildHeader(cs.reverse_mapping, RandomLow(first.pre), p.seed, p.metadata, p.file_ext)

C16_Framing ==
  pc = "fz_called" =>
    /\ ~Contains(json_dumps(BuiltHeader), NL)
    /\ IndexOf(result, NL) = Len(json_dumps(BuiltHeader)) + 1
    /\ json_loads(FirstLine(result)) = POk(BuiltHeader, Len(FirstLine(result)) + 1)
    /\ StartsWith(Body(result), cs.compressed_text)
    /\ ~RandomLow(first.pre) => Body(result) = cs.compressed_text

C16_Witness ==
  /\ pc = "fz_called"
  /\ p.file_ext = EXT_NL
  /\ cs.reverse_mapping # <<>>
  /\ Contains(Body(result), NL)
  /\ StrFind(FirstLine(result), <<BSLASH, "n">>) >= 0

\* C17: for a text, a min length L >= 1 and a cap N, the list
\* get_frequent_phrases returns has no duplicates, each of its words is a run
\* of letters and underscores of length L or more that occurs as a whole word
\* three times or more, the occurrence counts do not increase along the list,
\* the list has N entries at most, and no qualifying word left out occurs
\* more often than a word of the list
Occurrences(s, w) == Cardinality({i \in 1..Len(s) : WholeWordAt(s, i, w)})

Qualifies(s, w, L) ==
  /\ Len(w) >= L
  /\ \A k \in 1..Len(w) : w[k] \in Ident
  /\ Occurrences(s, w) >= 3

QualifyingWords(s, L) ==
  {w \in {SubSeq(s, i, j) : i \in 1..Len(s), j \in 1..Len(s)} : Qualifies(s, w, L)}

FrequentOK(s, r, L, N) ==
  /\ \A i, j \in 1..Len(r) : r[i] = r[j] => i = j
  /\ \A i \in 1..Len(r) : Qualifies(s, r[i], L)
  /\ \A i \in 1..(Len(r) - 1) : Occurrences(s, r[i]) >= Occurrences(s, r[i + 1])
  /\ Len(r) <= N
  /\ \A w \in QualifyingWords(s, L) :
       Contains(r, w) \/ \A i \in 1..Len(r) : Occurrences(s, w) <= Occurrences(s, r[i])

C17_FrequentPhrases ==
  pc = "fq_done" => FrequentOK(text, cs.words, p.min_len, p.top_n)

C17_Witness ==
  /\ pc = "fq_done"
  /\ p.top_n = 2
  /\ Len(cs.words) = 2
  /\ Cardinality(QualifyingWords(text, p.min_len)) = 3
  /\ Occurrences(text, cs.words[1]) > Occurrences(text, cs.words[2])
  /\ cs.words[1] # parts[1]

\* C18: for a dictionary index i >= 0 the token suffix compress emits (the
\* i-th character of the alphabet when i < 62, the decimal digits of i from
\* 62 on) is decoded by the sigil-token rule of expand back to i, and two
\* different indices never give the same token
SuffixOf(token) == Drop(token, 2)

RoundTripsIndex ==
  /\ pc = "ix_resolved" => out = ExOk(LongDict[p.idx + 1])
  /\ pc \in {"ix_token", "ix_resolved"} =>
       \A j \in 0..MaxIndex : get_token(j, p.prefix) = result => j = p.idx

\* the alphabet as the claim has it: 0-9A-Za-z
Alphabet_09AZaz == SubSeq(chars, 1, 10) \o SubSeq(chars, 37, 62) \o SubSeq(chars, 11, 36)

SuffixFrom(alphabet) ==
  pc \in {"ix_token", "ix_resolved"} =>
    SuffixOf(result) = IF p.idx < Len(alphabet) THEN <<alphabet[p.idx + 1]>>
                       ELSE IntToStr(p.idx)

CallResult == compress(text, FileMeta(p.filename), FileExt(p.filename), p.min_len, p.top_n)

Compressed ==
  /\ text # <<>>
  /\ analysis.action = "compress"
  /\ ValidUtf8(text)

SizeRule ==
  Compressed => result = IF Len(CallResult) < Len(text) THEN CallResult ELSE text

NeverLonger == Len(result) <= Len(text)

InputOrDocument == result = text \/ expand(result) = ExOk(text)

C19_SizePolicy ==
  pc \in {"cli_compressed", "cli_expanded"} => (SizeRule /\ NeverLonger /\ InputOrDocument)

\* C20: for input bytes that are not valid UTF-8, `--compress` and `--expand`
\* both write the input bytes as they are and end normally
C20_EncodingPassThrough ==
  /\ (pc \in {"cli_compressed", "cli_expanded"} /\ Contains(text, BAD)) => result = text
  /\ (pc = "cli_expanded" /\ Contains(result, BAD)) => out = ExOk(result)

C20_Witness ==
  /\ pc = "cli_expanded"
  /\ Contains(text, BAD)
  /\ Contains(parts, W_LONG)
  /\ analysis = Analysis("text", "compress")
  /\ Len(text) > Len(Cat(parts))
  /\ result = text
  /\ out = ExOk(text)

\* C21: with fuzz disabled, two calls of compress, or of expand, with equal
\* arguments give the same result whatever calls were made before or between
\* them, and no call leaves anything behind that a later call sees
SameCall(a, b) == a.op = b.op /\ a.text = b.text /\ a.args = b.args

C21_CallIndependence ==
  \A i, j \in 1..Len(log) :
    (SameCall(log[i], log[j]) /\ ~log[i].args.fuzz)
      => (log[i].ok = log[j].ok /\ log[i].doc = log[j].doc)

\* C22: compress with the tracking enabled returns, without raising, the
\* document compress returns with the tracking disabled, for any tracker
\* state and whichever tier the substituted words are of
Untracked(e) ==
  compress_fuzz(e.text, e.s, e.args.seed, e.args.metadata, e.args.file_ext,
                e.args.min_len, e.args.top_n)

C22_TelemetryNeutral ==
  \A i \in 1..Len(log) :
    (log[i].op = "compress" /\ tracker.enabled)
      => (log[i].ok /\ log[i].doc = IF log[i].args.fuzz THEN Untracked(log[i])
                                    ELSE compress(log[i].text, log[i].args.metadata,
                                                  log[i].args.file_ext, log[i].args.min_len,
                                                  log[i].args.top_n))

\* C23: delete_file, remove, unlink and rmtree raise DeletionBlocked for
\* every path and every configuration, and leave the files that exist and
\* the tracked set as they were
BlockedStep == files'.nops = files.nops + 1 /\ files'.last.op \in BlockedOps

Blocks ==
  /\ files'.last.exc = "DeletionBlocked"
  /\ files'.disk = files.disk
  /\ files'.gone = files.gone
  /\ files'.temp_files = files.temp_files

\* C23 as stated: nothing in the filesystem changes, the safety log included
C23_AsStated == [][BlockedStep => (Blocks /\ files'.audit = files.audit)]_vars

\* C23, the safety log apart
C23_DeletionBlocked == [][BlockedStep => Blocks]_vars

C23_Witness ==
  /\ files.last = [op |-> "rmtree", path |-> P_TMP1, exc |-> "DeletionBlocked"]
  /\ files.config.allow_user_file_deletion
  /\ files.temp_files = {P_TMP1}
  /\ files.disk = {P_USER, P_TMP1}
  /\ files.gone = {}

\* C24: every file the instance removed was made by its safe_write_temp and
\* was tracked when it was removed; cleanup_temp(p) for an untracked p
\* removes nothing; cleanup_temp() leaves the tracked set empty; and with
\* allow_temp_cleanup false a cleanup removes nothing and leaves the tracked
\* set as it was
CleanupStep ==
  files'.nops = files.nops + 1 /\ files'.last.op \in {"cleanup_temp", "atexit"}

RemovedWereTracked == \A g \in files'.gone : g.tracked /\ g.made

UntrackedRemovesNothing ==
  (files'.last.path \notin files.temp_files \cup {"None"}) => files'.gone = files.gone

CleanupAllEmpties ==
  (files'.last.path = "None" /\ files.config.allow_temp_cleanup) => files'.temp_files = {}

DisabledDoesNothing ==
  ~files.config.allow_temp_cleanup
    => (files'.gone = files.gone /\ files'.disk = files.disk
        /\ files'.temp_files = files.temp_files)

C24_OnlyTracked ==
  [][/\ RemovedWereTracked
     /\ CleanupStep => (UntrackedRemovesNothing /\ CleanupAllEmpties /\ DisabledDoesNothing)]_vars

\* C25: expand resolves a ~^ or ~* token to a dictionary word only when its
\* suffix is one character of the alphabet (the index is the character's
\* position in the alphabet) or a decimal string of value 62 or more (the
\* index is that value); a token with any other suffix, such as AB, 12 or
\* 01, is left as it is.  The position is taken in the alphabet the encoder
\* uses, so that the order of the letters (C18) plays no part here.
EmittedIndex(suffix) ==
  IF Len(suffix) = 1 THEN IndexOf(chars, suffix[1]) - 1
  ELSE IF IsDigitStr(suffix) /\ StrToInt(suffix) >= Len(chars) THEN StrToInt(suffix)
  ELSE -1

C25_DecodesOnlyEmitted ==
  (kind = "token" /\ pc = "ix_resolved") =>
     LET idx == EmittedIndex(SuffixOf(result))
     IN out = ExOk(IF 0 <= idx /\ idx < Len(LongDict) THEN LongDict[idx + 1] ELSE result)

\* C26: in every compress call, calls with shuffle_stages in DEV mode
\* included, every marker is escaped before the first word is substituted,
\* each word's tier is looked up global, then type, then local, the fuzz
\* block and the header are made after the last substitution, and with fuzz
\* off the returned document is the same for shuffle_stages true and false
AllEscaped(t, body) ==
  body = Cat([k \in 1..Len(t) |-> IF t[k] = TILDE THEN <<TILDE, TILDE>> ELSE <<t[k]>>])

TierPrefix(word, file_ext) ==
  IF Contains(GlobalDict, word) THEN P_GLOBAL
  ELSE IF Contains(TypeDictOf(file_ext), word) THEN P_TYPE
  ELSE P_LOCAL

SameButShuffle(a, b) ==
  /\ a.op = "compress" /\ b.op = "compress"
  /\ a.text = b.text
  /\ ~a.args.fuzz /\ ~b.args.fuzz
  /\ [a.args EXCEPT !.shuffle_stages = FALSE] = [b.args EXCEPT !.shuffle_stages = FALSE]

StageStep ==
  /\ (pc = "dev_idle" /\ pc' = "dev_loop") =>
       /\ AllEscaped(text', cs'.compressed_text)
       /\ cs'.i = 1 /\ cs'.tokens = <<>>
       /\ result' = result
  /\ (pc = "dev_loop" /\ pc' = "dev_loop") =>
       /\ cs'.tokens = Append(cs.tokens, cs'.tokens[cs.i])
       /\ SubSeq(cs'.tokens[cs.i], 1, Len(cs'.tokens[cs.i]) - 1)
            = TierPrefix(cs.words[cs.i], p.file_ext)
       /\ cs'.compressed_text =
            MapLexemes(Lexemes(cs.compressed_text, 1), cs.words[cs.i], cs'.tokens[cs.i])
       /\ result' = result
  /\ (pc = "dev_loop" /\ pc' = "dev_idle") =>
       /\ Len(cs.tokens) = Len(cs.words)
       /\ log'[Len(log')].ok =>
            /\ result' = log'[Len(log')].doc
            /\ StartsWith(Body(result'), cs.compressed_text)
            /\ HeaderM(result') = JObj([k \in 1..Len(cs.reverse_mapping) |->
                                         <<cs.reverse_mapping[k][1], JStr(cs.reverse_mapping[k][2])>>])
  /\ \A i, j \in 1..Len(log') :
       (SameButShuffle(log'[i], log'[j]) /\ log'[i].ok /\ log'[j].ok)
         => log'[i].doc = log'[j].doc

C27_Step ==
  (pc = "loop" /\ pc' = "loop") =>
     SelectSeq(BodyTokens(cs'.compressed_text, 1), LAMBDA t : t # cs'.tokens[cs.i])
       = BodyTokens(cs.compressed_text, 1)

C27_TokenIntegrity == [][C27_Step]_vars

\* C28: within one compress call the local words get the indices 0, 1, 2, ...
\* in the order they are processed (longest word first), so the header's
\* mapping pairs every local token with one local word and every local word
\* with one token, no two words share a token, no local token is a global
\* or type token, and the mapping has at most top_n entries
IsLocalWord(w) == ~Contains(GlobalDict, w) /\ ~Contains(TypeDictOf(p.file_ext), w)

LocalWordsSoFar == SelectSeq(SubSeq(cs.words, 1, cs.i - 1), IsLocalWord)

C28_LocalAllocation ==
  InLoop =>
    /\ LongestFirst(cs.words)
    /\ Len(cs.mapping) = Len(LocalWordsSoFar)
    /\ \A k \in 1..Len(cs.mapping) :
         /\ cs.mapping[k] = <<LocalWordsSoFar[k], <<TILDE, chars[k]>>>>
         /\ cs.reverse_mapping[k] = <<<<TILDE, chars[k]>>, LocalWordsSoFar[k]>>
    /\ \A j, k \in 1..Len(cs.mapping) :
         (cs.mapping[j][1] = cs.mapping[k][1] \/ cs.mapping[j][2] = cs.mapping[k][2]) => j = k
    /\ \A j, k \in 1..Len(cs.tokens) : cs.tokens[j] = cs.tokens[k] => j = k
    /\ \A j \in 1..Len(cs.tokens) :
         ~IsLocalWord(cs.words[j]) => ~Contains(cs.reverse_mapping, <<cs.tokens[j], cs.words[j]>>)
                                      /\ \A k \in 1..Len(cs.mapping) : cs.mapping[k][2] # cs.tokens[j]
    /\ Len(cs.mapping) <= p.top_n
    /\ pc \in {"compressed", "expanded"} =>
         HeaderM(result) = JObj([k \in 1..Len(cs.reverse_mapping) |->
                                  <<cs.reverse_mapping[k][1], JStr(cs.reverse_mapping[k][2])>>])

C28_Witness ==
  /\ pc = "compressed"
  /\ p.min_len = 1
  /\ p.file_ext = EXT_PY
  /\ cs.words = <<W_DATA, W_A>>
  /\ cs.tokens = <<T_L0, T_L1>>
  /\ cs.mapping = << <<W_DATA, T_L0>>, <<W_A, T_L1>> >>
  /\ HeaderM(result) = JObj(<< <<T_L0, JStr(W_DATA)>>, <<T_L1, JStr(W_A)>> >>)

\* C29: after any sequence of register_module, disable_module and
\* enable_module calls, current_order has no module twice and lists its
\* modules in the relative order default_order has them; enable_module puts
\* a disabled module back at its place among the enabled ones, in whatever
\* order several disabled modules are enabled again
InDefaultOrder(order, default) ==
  \A i, j \in 1..Len(order) :
    i < j => /\ order[i] # order[j]
             /\ Contains(default, order[i]) /\ Contains(default, order[j])
             /\ IndexOf(default, order[i]) < IndexOf(default, order[j])

C29_OrderPreserved ==
  pc = "order" => InDefaultOrder(tracker.current_order, tracker.default_order)

\* C30: under every interleaving of a controller's send_command calls and a
\* worker's check_command calls, each command that was sent and not
\* overwritten by a later send before it was read is returned by exactly one
\* check_command call: no command is returned twice, and once both
\* processes are between calls a sent command has been returned, was
\* overwritten unread, or is still in the command file; so a 'stop' sent
\* between the worker's read and its unlink of an earlier command arrives
Returned(k) == \E i \in 1..Len(chan.got) : chan.got[i] = k

C30_NoLossNoDup ==
  pc = "ipc" =>
    /\ \A i, j \in 1..Len(chan.got) : chan.got[i] = chan.got[j] => i = j
    /\ (chan.spc = "idle" /\ chan.wpc = "idle") =>
         \A k \in chan.done : Returned(k) \/ k \in chan.overwritten \/ chan.file = k

=========================================================================
